---- MODULE Spec2Model ----
(***************************************************************************)
(* A model of the HTTP/1.1 codec (httpclient/protocol.py), of the server   *)
(* dispatcher (httpclient/server.py), of the client (httpclient/request.py *)
(* and api.py) and of the WebSocket session (wsproto.py).                  *)
(* Byte strings are sequences of numbers 0..255; text is                   *)
(* the sequence of its latin-1 codes.                                      *)
(*                                                                         *)
(* The specifications share the module's variables; each leaves the        *)
(* variables of the others at their "off" values:                          *)
(*   SpecChunked   HttpStreamWriter.write_body(chunked=True) feeding       *)
(*                 HttpStreamReader.read_payload(ChunkedReader())          *)
(*   SpecMessage   HttpStreamReader.read_headers / read_message            *)
(*   SpecHeaders   HttpStreamReader.read_headers on long fields            *)
(*   SpecWS        WebSocketProto: receive() and close() against a peer    *)
(*   SpecHandshake WebSocketProto.serve() and connect()                    *)
(*   SpecFrame     WebSocketProto._send_frame and _receive_frame           *)
(*   SpecServer    ServerHttpProtocol / WSGIServerHttpProtocol             *)
(*   SpecParse     read_request_line, read_response_status, read_headers   *)
(*   SpecRequest   HttpRequest.__init__ and start()                        *)
(*   SpecApi       api.request() and api.stream() under a timeout          *)
(*   SpecPayload   read_payload, direct and through read_message           *)
(*   SpecDelivery  WebSocketProto._receive_frame on bytes that arrive in   *)
(*                 pieces                                                  *)
(*   SpecResponse  server.Response: start_response and write               *)
(*   SpecSession   WebSocketProto: receive(), send() and close()           *)
(*   SpecRedirect  the redirect loop of api.request()                      *)
(*   SpecConsume   LengthReader and ChunkedReader on a shared stream       *)
(*   SpecWriter    ChunkedWriter.write                                     *)
(*   SpecBegin     HttpResponse.begin                                      *)
(***************************************************************************)
EXTENDS Integers, Sequences, FiniteSets, TLC

VARIABLES
    \* ---- chunked writer / reader -------------------------------------
    cpc,          \* "init" | "written" | "fed" | "done" | "failed" | "off"
    chunks,       \* the sequence of byte chunks handed to write_body
    transport,    \* the writes the transport received, one entry per call
    rbuf,         \* the reader's buffer (StreamReader.buffer)
    reof,         \* the reader's eof flag
    body,         \* read_payload's buf
    \* ---- message reader ----------------------------------------------
    mpc,          \* "init" | "fed" | "done" | "failed" | "off"
    mwire,        \* the header block as sent on the wire
    margs,        \* read_message's arguments
    mbuf,         \* the reader's buffer
    mres,         \* read_message's result (or the error raised)
    \* ---- websocket session -------------------------------------------
    wpc,          \* position of the receive() coroutine, "off" when unused
    wbuf,         \* _rstream's buffer
    weof,         \* _rstream's eof flag
    wout,         \* frames written to _wstream, one entry per write
    closed,       \* self._closed
    close_code,   \* self.close_code
    close_message,\* self.close_message
    wchunks,      \* self._chunks
    wloc,         \* the locals of _receive / _receive_frame
    wret,         \* how the last receive() call ended
    wlog,         \* ghost: what the peer fed and what receive() saw
    \* ---- websocket handshake -----------------------------------------
    hpc,          \* "init" | "served" | "answered" | "checked" | "off"
    environ,      \* the request headers handed to serve()
    sec_key,      \* the client's self.sec_key
    served,       \* what serve() returned (or raised)
    response,     \* the response connect() got from its request
    connected,    \* how connect() ended
    \* ---- one frame, written and read back -----------------------------
    fpc,          \* "init" | "sent" | "received" | "off"
    finp,         \* [opcode, message, mask]: what is framed, and the key
    fwire,        \* the frame's bytes in the reader's buffer
    fout,         \* what _receive_frame returned
    \* ---- server dispatcher ------------------------------------------
    handler,      \* self.handler: None or "task"; "off" when unused
    task,         \* the handler task: [pos, cancel]
    closing,      \* self.closing
    request_count,\* self.request_count
    sreq,         \* the request read (rline, message) and the app's script
    sresp,        \* the Response of the current request
    swrites,      \* what the current handler run wrote to the transport,
                  \* and its transport.close()
    lost,         \* connection_lost was called
    slog,         \* ghost: how the handler run ended
    \* ---- read_headers on long fields ---------------------------------
    hdpc,         \* "init" | "read" | "off"
    hdinp,        \* the header block, by the shape of its fields
    hdres,        \* what read_headers returned (or raised)
    \* ---- the start line and header parsers on short texts ------------
    ppc,          \* "init" | "fed" | "read" | "off"
    pinp,         \* the text on the wire, by its parts
    pbuf,         \* the reader's buffer
    peof,         \* feed_eof() was called
    pres,         \* what the parser returned (or raised)
    \* ---- HttpRequest ---------------------------------------------------
    qpc,          \* "init" | "made" | "started" | "off"
    qargs,        \* the arguments of HttpRequest(...)
    qparams,      \* self._params and the data moved to the query
    qheaders,     \* self.headers, in order
    qbody,        \* self.body, as the chunks written
    qchunked,     \* self.chunked: "unset" | "True" | "False"
    qcalls,       \* the calls start() made on the tulip Request
    \* ---- api.request / api.stream ------------------------------------
    apc,          \* the caller: "init" | "waiting" | "returned" | "raised"
    aargs,        \* [api, timeout, allow_redirects, max_redirects]
    atask,        \* the task tasks.wait waits for
    atimer,       \* the timeout of tasks.wait: "none" | "running" | "expired"
    aio,          \* what was done on the connection, in order
    aout,         \* what the call returned or raised
    astatus,      \* response.status
    aredirects,   \* redirects
    \* ---- read_payload ------------------------------------------------
    ypc,          \* "init" | "fed" | "message" | "done" | "failed" | "off"
    yinp,         \* [path, enc, framing, compression, data]
    ybuf,         \* the reader's buffer
    yeof,         \* the reader's eof flag
    ymsg,         \* the reader and encoding read_payload is called with
    yres,         \* what read_payload returned (or the error raised)
    \* ---- one frame delivered in pieces ---------------------------------
    dpc,          \* _receive_frame: "hdr" | "length" | "mask" | "payload" |
                  \* "done"; "off" when unused
    dinp,         \* [opcode, message, mask]: the frame the peer sends
    dleft,        \* the bytes of the frame not delivered yet
    dbuf,         \* _rstream's buffer
    deof,         \* _rstream's eof flag
    dfeeds,       \* the number of feed_data calls made
    dloc,         \* the locals of _receive_frame
    dout,         \* what _receive_frame returned or raised
    \* ---- one server Response -------------------------------------------
    rsp,          \* the Response's fields; "None" when unused
    rspout,       \* what it wrote to wstream
    rspn,         \* the number of calls made on it
    rsplog,       \* ghost: the last call and whether it raised
    \* ---- websocket session: send() and the peer's close ------------------
    gpeer,        \* ghost: receive() returned empty on a close frame
    gsent,        \* the number of send() calls made
    \* ---- api.request(): the redirect loop --------------------------------
    rdpc,         \* "init", "waiting", "returned", "raised"
    rdargs,       \* [allow_redirects, max_redirects]
    rdredirects,  \* redirects
    rdrequests,   \* the number of HttpRequest objects started
    rdresp,       \* the last response: [status, location]
    rdout,        \* what request() returned or raised
    rdall,        \* ghost: every response so far was a 301 or a 302
    \* ---- a body reader on a stream that holds more than the body ---------
    bpc,          \* "reading", "done", "failed"
    binp,         \* the reader, the body as framed, the bytes that follow
    bleft,        \* bytes the transport has not delivered yet
    bbuf,         \* the stream's buffer
    beof,         \* feed_eof() was called
    breader,      \* the reader object (LengthReader.length changes)
    bn,           \* the number of read calls that returned
    \* ---- ChunkedWriter(chunk_size).write(stream) -------------------------
    cwpc,         \* "running" or "returned"
    cwk,          \* self.chunk_size
    cwin,         \* the input: a sequence of byte strings
    cwrest,       \* the items the iterator has not given yet
    cwbuf,        \* buf
    cwout,        \* the pieces yielded so far
    \* ---- HttpResponse.begin ----------------------------------------------
    hrpc,         \* "init", "begun", "raised"
    hrinp,        \* the request method and the response's status and headers
    hrout         \* will_close, the body reader, or the error raised

cvars == <<cpc, chunks, transport, rbuf, reof, body>>
mvars == <<mpc, mwire, margs, mbuf, mres>>
wvars == <<wpc, wbuf, weof, wout, closed, close_code, close_message,
           wchunks, wloc, wret, wlog>>
hvars == <<hpc, environ, sec_key, served, response, connected>>
fvars == <<fpc, finp, fwire, fout>>
svars == <<handler, task, closing, request_count, sreq, sresp, swrites, lost,
           slog>>
kvars == <<hdpc, hdinp, hdres>>
pvars == <<ppc, pinp, pbuf, peof, pres>>
qvars == <<qpc, qargs, qparams, qheaders, qbody, qchunked, qcalls>>
avars == <<apc, aargs, atask, atimer, aio, aout, astatus, aredirects>>
yvars == <<ypc, yinp, ybuf, yeof, ymsg, yres>>
dvars == <<dpc, dinp, dleft, dbuf, deof, dfeeds, dloc, dout>>
evars == <<rsp, rspout, rspn, rsplog>>
gvars == <<gpeer, gsent>>
rdvars == <<rdpc, rdargs, rdredirects, rdrequests, rdresp, rdout, rdall>>
bvars == <<bpc, binp, bleft, bbuf, beof, breader, bn>>
cwvars == <<cwpc, cwk, cwin, cwrest, cwbuf, cwout>>
hrvars == <<hrpc, hrinp, hrout>>
x15vars == <<hrvars>>
x14vars == <<cwvars, x15vars>>
x13vars == <<bvars, x14vars>>
x12vars == <<rdvars, x13vars>>
x11vars == <<gvars, x12vars>>
x10vars == <<evars, x11vars>>
x9vars == <<dvars, x10vars>>
x8vars == <<yvars, x9vars>>
x7vars == <<avars, x8vars>>
x6vars == <<qvars, x7vars>>
x5vars == <<pvars, x6vars>>
x4vars == <<kvars, x5vars>>
x3vars == <<svars, x4vars>>
x2vars == <<fvars, x3vars>>
xvars == <<hvars, x2vars>>
vars == <<cvars, mvars, wvars, xvars>>

None == "None"

(***************************************************************************)
(* Bytes and text helpers.                                                 *)
(***************************************************************************)
CR == 13
LF == 10
CRLF == <<13, 10>>

RECURSIVE Flatten(_)
Flatten(ss) == IF ss = <<>> THEN <<>> ELSE Head(ss) \o Flatten(Tail(ss))

\* bytes.find(b): the first position (1-based) of byte b, 0 when absent
Find(s, b) ==
    LET hits == {i \in 1..Len(s) : s[i] = b}
    IN IF hits = {} THEN 0 ELSE CHOOSE i \in hits : \A j \in hits : i <= j

Drop(s, n) == SubSeq(s, n + 1, Len(s))
Take(s, n) == SubSeq(s, 1, n)

\* the bytes Python's strip()/int() treat as whitespace
IsSpace(b) == b \in {32, 9, 10, 13, 11, 12}

RECURSIVE LStrip(_)
LStrip(s) == IF s # <<>> /\ IsSpace(Head(s)) THEN LStrip(Tail(s)) ELSE s

RECURSIVE RStrip(_)
RStrip(s) ==
    IF s # <<>> /\ IsSpace(s[Len(s)]) THEN RStrip(Take(s, Len(s) - 1)) ELSE s

Strip(s) == LStrip(RStrip(s))

LowerByte(b) == IF b >= 65 /\ b <= 90 THEN b + 32 ELSE b
UpperByte(b) == IF b >= 97 /\ b <= 122 THEN b - 32 ELSE b
Lower(s) == [i \in 1..Len(s) |-> LowerByte(s[i])]
Upper(s) == [i \in 1..Len(s) |-> UpperByte(s[i])]

\* 'sub in s'
Contains(s, sub) ==
    \E i \in 0..(Len(s) - Len(sub)) : SubSeq(s, i + 1, i + Len(sub)) = sub

StartsWith(s, p) == Len(s) >= Len(p) /\ Take(s, Len(p)) = p

(***************************************************************************)
(* StreamReader (tulip): readline, readexactly, read.                     *)
(* Each returns [st, data, rest]: st = "wait" when the coroutine would     *)
(* suspend for more data.                                                  *)
(***************************************************************************)
ReadLine(buf, eof) ==
    LET i == Find(buf, LF) IN
    IF i > 0 THEN [st |-> "ok", data |-> Take(buf, i), rest |-> Drop(buf, i)]
    ELSE IF eof THEN [st |-> "ok", data |-> buf, rest |-> <<>>]
    ELSE [st |-> "wait", data |-> <<>>, rest |-> buf]

ReadExactly(buf, eof, n) ==
    IF n <= 0 THEN [st |-> "ok", data |-> <<>>, rest |-> buf]
    ELSE IF Len(buf) >= n
    THEN [st |-> "ok", data |-> Take(buf, n), rest |-> Drop(buf, n)]
    ELSE IF eof THEN [st |-> "incomplete", data |-> buf, rest |-> <<>>]
    ELSE [st |-> "wait", data |-> <<>>, rest |-> buf]

\* read(n): up to n bytes as soon as any are buffered; empty only at EOF
StreamRead(buf, eof, n) ==
    IF n = 0 THEN [st |-> "ok", data |-> <<>>, rest |-> buf]
    ELSE IF buf # <<>>
    THEN LET k == IF Len(buf) <= n THEN Len(buf) ELSE n
         IN [st |-> "ok", data |-> Take(buf, k), rest |-> Drop(buf, k)]
    ELSE IF eof THEN [st |-> "ok", data |-> <<>>, rest |-> <<>>]
    ELSE [st |-> "wait", data |-> <<>>, rest |-> buf]

(***************************************************************************)
(* '{:x}'.format(n) and int(line, 16).                                     *)
(***************************************************************************)
HexDigit(d) == IF d < 10 THEN 48 + d ELSE 97 + (d - 10)

RECURSIVE FormatHex(_)
FormatHex(n) ==
    IF n < 16 THEN <<HexDigit(n)>>
    ELSE FormatHex(n \div 16) \o <<HexDigit(n % 16)>>

\* the value of a hex digit byte, -1 when it is none
HexValue(b) ==
    IF b >= 48 /\ b <= 57 THEN b - 48
    ELSE IF b >= 97 /\ b <= 102 THEN b - 87
    ELSE IF b >= 65 /\ b <= 70 THEN b - 55
    ELSE -1

RECURSIVE HexDigits(_, _)
HexDigits(s, acc) ==
    IF s = <<>> THEN acc
    ELSE HexDigits(Tail(s), 16 * acc + HexValue(Head(s)))

\* int(s, 16): surrounding whitespace, a sign and a 0x prefix are accepted;
\* [ok |-> FALSE] stands for ValueError
IntBase16(s) ==
    LET t == Strip(s)
        neg == t # <<>> /\ Head(t) = 45
        u == IF t # <<>> /\ Head(t) \in {43, 45} THEN Tail(t) ELSE t
        v == IF Len(u) >= 2 /\ u[1] = 48 /\ u[2] \in {120, 88}
             THEN Drop(u, 2) ELSE u
    IN IF v = <<>> \/ \E i \in 1..Len(v) : HexValue(v[i]) < 0
       THEN [ok |-> FALSE, val |-> 0]
       ELSE [ok |-> TRUE,
             val |-> IF neg THEN 0 - HexDigits(v, 0) ELSE HexDigits(v, 0)]

(***************************************************************************)
(* HttpStreamWriter: write_chunked, write_chunked_eof, write_body.         *)
(* Each returns the sequence of transport.write calls it makes.            *)
(***************************************************************************)
\* a writer that frames an empty chunk like any other
write_chunked_noskip(chunk) ==
    << FormatHex(Len(chunk)) \o CRLF, chunk, CRLF >>

write_chunked(chunk) ==
    IF chunk = <<>> THEN <<>>
    ELSE << FormatHex(Len(chunk)) \o CRLF, chunk, CRLF >>

write_chunked_eof == << <<48, 13, 10, 13, 10>> >>

RECURSIVE write_chunks(_)
write_chunks(data) ==
    IF data = <<>> THEN <<>>
    ELSE write_chunked(Head(data)) \o write_chunks(Tail(data))

\* write_body(data, writers=None, chunked): data is an iterable of chunks
write_body(data, chunked) ==
    IF chunked THEN write_chunks(data) \o write_chunked_eof
    ELSE data

(***************************************************************************)
(* ChunkedReader.read(stream): one call.                                   *)
(***************************************************************************)
\* read and discard the trailer up to the blank line (or EOF)
RECURSIVE DrainTrailer(_, _)
DrainTrailer(buf, eof) ==
    LET l == ReadLine(buf, eof) IN
    IF l.st = "wait" THEN [st |-> "wait", data |-> <<>>, rest |-> buf]
    ELSE IF l.data \in {CRLF, <<LF>>, <<>>}
    THEN [st |-> "ok", data |-> <<>>, rest |-> l.rest]
    ELSE DrainTrailer(l.rest, eof)

\* _read_next_chunk_size: the size line without its chunk extensions
ChunkSizeLine(line) ==
    LET i == Find(line, 59) IN IF i > 0 THEN Take(line, i - 1) ELSE line

ChunkedReader_read(buf, eof) ==
    LET l == ReadLine(buf, eof) IN
    IF l.st = "wait" THEN [st |-> "wait", data |-> <<>>, rest |-> buf]
    ELSE
    LET size == IntBase16(ChunkSizeLine(l.data)) IN
    IF ~size.ok THEN [st |-> "incomplete", data |-> <<>>, rest |-> l.rest]
    ELSE IF size.val = 0 THEN DrainTrailer(l.rest, eof)
    ELSE
    LET d == ReadExactly(l.rest, eof, size.val) IN
    IF d.st # "ok" THEN [st |-> d.st, data |-> <<>>, rest |-> d.rest]
    ELSE
    LET c == ReadExactly(d.rest, eof, 2) IN
    IF c.st # "ok" THEN [st |-> c.st, data |-> <<>>, rest |-> c.rest]
    ELSE [st |-> "ok", data |-> d.data, rest |-> c.rest]

(***************************************************************************)
(* SpecChunked: write a chunk sequence, deliver it, read it back.          *)
(***************************************************************************)
MaxChunks == 3
MaxChunkLen == 2
ChunkBytes == {10, 97}

BytesUpTo(S, n) == UNION {[1..k -> S] : k \in 0..n}

\* two chunks long enough for two-digit sizes ('11' and '1a')
LongChunks == {[i \in 1..17 |-> 97], [i \in 1..26 |-> 10]}

ChunkChoices == BytesUpTo(ChunkBytes, MaxChunkLen) \cup LongChunks

MsgOff ==
    /\ mpc = "off" /\ mwire = <<>> /\ margs = None /\ mbuf = <<>>
    /\ mres = None

WsOff ==
    /\ wpc = "off" /\ wbuf = <<>> /\ weof = FALSE /\ wout = <<>>
    /\ closed = FALSE /\ close_code = <<>> /\ close_message = <<>>
    /\ wchunks = <<>> /\ wloc = None /\ wret = None /\ wlog = None

ChunkedOff ==
    /\ cpc = "off" /\ chunks = <<>> /\ transport = <<>> /\ rbuf = <<>>
    /\ reof = FALSE /\ body = <<>>

HsOff ==
    /\ hpc = "off" /\ environ = None /\ sec_key = <<>> /\ served = None
    /\ response = None /\ connected = None

FrOff == fpc = "off" /\ finp = None /\ fwire = <<>> /\ fout = None

SrvOff ==
    /\ handler = "off" /\ task = None /\ closing = FALSE /\ request_count = 0
    /\ sreq = None /\ sresp = <<>> /\ swrites = <<>> /\ lost = FALSE
    /\ slog = None

HdOff == hdpc = "off" /\ hdinp = None /\ hdres = None

ParseOff ==
    /\ ppc = "off" /\ pinp = None /\ pbuf = <<>> /\ peof = FALSE
    /\ pres = None

RequestOff ==
    /\ qpc = "off" /\ qargs = None /\ qparams = None /\ qheaders = <<>>
    /\ qbody = <<>> /\ qchunked = "unset" /\ qcalls = <<>>

ApiOff ==
    /\ apc = "off" /\ aargs = None /\ atask = "none" /\ atimer = "none"
    /\ aio = <<>> /\ aout = None /\ astatus = 0 /\ aredirects = 0

PayloadOff ==
    /\ ypc = "off" /\ yinp = None /\ ybuf = <<>> /\ yeof = FALSE
    /\ ymsg = None /\ yres = None

DeliveryOff ==
    /\ dpc = "off" /\ dinp = None /\ dleft = <<>> /\ dbuf = <<>>
    /\ deof = FALSE /\ dfeeds = 0 /\ dloc = None /\ dout = None

ResponseOff == rsp = None /\ rspout = <<>> /\ rspn = 0 /\ rsplog = None

SessionOff == gpeer = FALSE /\ gsent = 0

NoResponse == [status |-> 0, location |-> "none"]

RedirectOff ==
    /\ rdpc = "off" /\ rdargs = None /\ rdredirects = 0 /\ rdrequests = 0
    /\ rdresp = NoResponse /\ rdout = None /\ rdall = TRUE

ConsumeOff ==
    /\ bpc = "off" /\ binp = None /\ bleft = <<>> /\ bbuf = <<>>
    /\ beof = FALSE /\ breader = None /\ bn = 0

WriterOff ==
    /\ cwpc = "off" /\ cwk = 0 /\ cwin = <<>> /\ cwrest = <<>>
    /\ cwbuf = <<>> /\ cwout = <<>>

BeginOff == hrpc = "off" /\ hrinp = None /\ hrout = None

X15Off == BeginOff
X14Off == WriterOff /\ X15Off
X13Off == ConsumeOff /\ X14Off
X12Off == RedirectOff /\ X13Off
X11Off == SessionOff /\ X12Off
X10Off == ResponseOff /\ X11Off
X9Off == DeliveryOff /\ X10Off
X8Off == PayloadOff /\ X9Off
X7Off == ApiOff /\ X8Off
X6Off == RequestOff /\ X7Off
X5Off == ParseOff /\ X6Off
X4Off == HdOff /\ X5Off
X3Off == SrvOff /\ X4Off
X2Off == FrOff /\ X3Off
XOff == HsOff /\ X2Off

InitChunked ==
    /\ cpc = "init"
    /\ chunks \in UNION {[1..k -> ChunkChoices] : k \in 0..MaxChunks}
    /\ transport = <<>>
    /\ rbuf = <<>>
    /\ reof = FALSE
    /\ body = <<>>
    /\ MsgOff /\ WsOff /\ XOff

\* writer.write_body(chunks, chunked=True)
WriteBody ==
    /\ cpc = "init"
    /\ transport' = transport \o write_body(chunks, TRUE)
    /\ cpc' = "written"
    /\ UNCHANGED <<chunks, rbuf, reof, body, mvars, wvars, xvars>>

\* HttpProtocol.data_received: rstream.feed_data(data)
DataReceived ==
    /\ cpc = "written"
    /\ rbuf' = rbuf \o Flatten(transport)
    /\ cpc' = "fed"
    /\ UNCHANGED <<chunks, transport, reof, body, mvars, wvars, xvars>>

\* HttpProtocol.eof_received: rstream.feed_eof()
EofReceived ==
    /\ cpc = "fed"
    /\ ~reof
    /\ reof' = TRUE
    /\ UNCHANGED <<cpc, chunks, transport, rbuf, body, mvars, wvars, xvars>>

\* one turn of read_payload's loop with reader = ChunkedReader()
ReadPayloadStep ==
    /\ cpc = "fed"
    /\ LET r == ChunkedReader_read(rbuf, reof) IN
       /\ r.st # "wait"
       /\ rbuf' = r.rest
       /\ IF r.st # "ok" THEN cpc' = "failed" /\ body' = body
          ELSE IF r.data = <<>> THEN cpc' = "done" /\ body' = body
          ELSE cpc' = "fed" /\ body' = body \o r.data
    /\ UNCHANGED <<chunks, transport, reof, mvars, wvars, xvars>>

NextChunked == WriteBody \/ DataReceived \/ EofReceived \/ ReadPayloadStep

SpecChunked == InitChunked /\ [][NextChunked]_vars

Terminator == <<48, 13, 10, 13, 10>>

NonEmpty(ss) == {i \in 1..Len(ss) : ss[i] # <<>>}

\* C1: chunked round trip.  Once write_body has run, the transport got three
\* writes per non-empty chunk and none per empty chunk, followed by exactly
\* one terminator '0\r\n\r\n' as the last write; reading the delivered bytes
\* with read_payload(ChunkedReader()) never fails and ends with exactly the
\* concatenation of the chunks.
C1_ChunkedRoundTrip ==
    /\ cpc # "failed"
    /\ cpc \in {"written", "fed", "done"} =>
          /\ Len(transport) = 3 * Cardinality(NonEmpty(chunks)) + 1
          /\ {i \in 1..Len(transport) : transport[i] = Terminator}
                = {Len(transport)}
    /\ cpc = "fed" =>
          \E k \in 0..Len(chunks) : body = Flatten(Take(chunks, k))
    /\ cpc = "done" => body = Flatten(chunks) /\ rbuf = <<>>

\* a body with an empty chunk between two non-empty ones was read back
C1_Witness ==
    /\ cpc = "done"
    /\ Len(chunks) = 3
    /\ chunks[1] # <<>> /\ chunks[2] = <<>> /\ chunks[3] # <<>>
    /\ body = chunks[1] \o chunks[3]

(***************************************************************************)
(* HttpStreamReader.read_headers and read_message.                         *)
(***************************************************************************)
MAX_HEADERS == 32768
MAX_HEADERFIELD_SIZE == 8190

\* header names and values read_message compares with
T_CONTENT_LENGTH == <<67, 79, 78, 84, 69, 78, 84, 45, 76, 69, 78, 71, 84, 72>>   \* 'CONTENT-LENGTH'
T_TRANSFER_ENCODING == <<84, 82, 65, 78, 83, 70, 69, 82, 45, 69, 78, 67, 79, 68, 73, 78, 71>>   \* 'TRANSFER-ENCODING'
T_SEC_WEBSOCKET_KEY1 == <<83, 69, 67, 45, 87, 69, 66, 83, 79, 67, 75, 69, 84, 45, 75, 69, 89, 49>>   \* 'SEC-WEBSOCKET-KEY1'
T_CONNECTION == <<67, 79, 78, 78, 69, 67, 84, 73, 79, 78>>   \* 'CONNECTION'
T_CONTENT_ENCODING == <<67, 79, 78, 84, 69, 78, 84, 45, 69, 78, 67, 79, 68, 73, 78, 71>>   \* 'CONTENT-ENCODING'
T_chunked == <<99, 104, 117, 110, 107, 101, 100>>   \* 'chunked'
T_close == <<99, 108, 111, 115, 101>>   \* 'close'
T_keep_alive == <<107, 101, 101, 112, 45, 97, 108, 105, 118, 101>>   \* 'keep-alive'
T_gzip == <<103, 122, 105, 112>>   \* 'gzip'
T_deflate == <<100, 101, 102, 108, 97, 116, 101>>   \* 'deflate'

\* header fields as they arrive on the wire
L_ConnClose ==   \* 'Connection: close\r\n'
    <<67, 111, 110, 110, 101, 99, 116, 105, 111, 110, 58, 32, 99, 108, 111, 115, 101, 13, 10>>
L_ConnCloseMixed ==   \* 'connection:  Close \r\n'
    <<99, 111, 110, 110, 101, 99, 116, 105, 111, 110, 58, 32, 32, 67, 108, 111, 115, 101, 32, 13, 10>>
L_ConnKeepAliveMixed ==   \* 'CONNECTION : Keep-Alive\n'
    <<67, 79, 78, 78, 69, 67, 84, 73, 79, 78, 32, 58, 32, 75, 101, 101, 112, 45, 65, 108, 105, 118, 101, 10>>
L_ConnUpgrade ==   \* 'Connection: upgrade\r\n'
    <<67, 111, 110, 110, 101, 99, 116, 105, 111, 110, 58, 32, 117, 112, 103, 114, 97, 100, 101, 13, 10>>
L_TEChunked ==   \* 'Transfer-Encoding: chunked\r\n'
    <<84, 114, 97, 110, 115, 102, 101, 114, 45, 69, 110, 99, 111, 100, 105, 110, 103, 58, 32, 99, 104, 117, 110, 107, 101, 100, 13, 10>>
L_TEGzipChunked ==   \* 'transfer-encoding: gzip, Chunked\r\n'
    <<116, 114, 97, 110, 115, 102, 101, 114, 45, 101, 110, 99, 111, 100, 105, 110, 103, 58, 32, 103, 122, 105, 112, 44, 32, 67, 104, 117, 110, 107, 101, 100, 13, 10>>
L_TEIdentity ==   \* 'Transfer-Encoding: identity\r\n'
    <<84, 114, 97, 110, 115, 102, 101, 114, 45, 69, 110, 99, 111, 100, 105, 110, 103, 58, 32, 105, 100, 101, 110, 116, 105, 116, 121, 13, 10>>
L_CL5 ==   \* 'Content-Length: 5\r\n'
    <<67, 111, 110, 116, 101, 110, 116, 45, 76, 101, 110, 103, 116, 104, 58, 32, 53, 13, 10>>
L_CLBad ==   \* 'Content-Length: 5x\r\n'
    <<67, 111, 110, 116, 101, 110, 116, 45, 76, 101, 110, 103, 116, 104, 58, 32, 53, 120, 13, 10>>
L_CLNeg ==   \* 'Content-Length: -1\r\n'
    <<67, 111, 110, 116, 101, 110, 116, 45, 76, 101, 110, 103, 116, 104, 58, 32, 45, 49, 13, 10>>
L_Key1 ==   \* 'Sec-WebSocket-Key1: 4 @1\r\n'
    <<83, 101, 99, 45, 87, 101, 98, 83, 111, 99, 107, 101, 116, 45, 75, 101, 121, 49, 58, 32, 52, 32, 64, 49, 13, 10>>
L_CEGzip ==   \* 'Content-Encoding: GZip\r\n'
    <<67, 111, 110, 116, 101, 110, 116, 45, 69, 110, 99, 111, 100, 105, 110, 103, 58, 32, 71, 90, 105, 112, 13, 10>>
L_Folded ==   \* 'X-A: b\r\n c\r\n'
    <<88, 45, 65, 58, 32, 98, 13, 10, 32, 99, 13, 10>>
L_NoColon ==   \* 'bad\r\n'
    <<98, 97, 100, 13, 10>>

\* HDRRE: the bytes a header name must not hold
HdrForbidden(b) ==
    \/ b <= 31
    \/ b = 127
    \/ b \in {40, 41, 60, 62, 64, 44, 59, 58, 91, 93, 61, 123, 125,
              32, 9, 92, 34}

\* bytes.rstrip(b' \t')
RECURSIVE RStripBlank(_)
RStripBlank(s) ==
    IF s # <<>> /\ s[Len(s)] \in {32, 9}
    THEN RStripBlank(Take(s, Len(s) - 1)) ELSE s

\* a size check that already refuses MAX_HEADERFIELD_SIZE itself
FieldTooLongGE(header_length) == header_length >= MAX_HEADERFIELD_SIZE

\* header_length > self.MAX_HEADERFIELD_SIZE
FieldTooLong(header_length) == header_length > MAX_HEADERFIELD_SIZE

\* a total-size check that still accepts MAX_HEADERS itself
HeadersTooLongGT(size) == size > MAX_HEADERS

\* size >= self.MAX_HEADERS
HeadersTooLong(size) == size >= MAX_HEADERS

\* line.startswith(CONTINUATION)
IsContinuation(line) == line # <<>> /\ line[1] \in {32, 9}

\* the inner loop of read_headers: consume the continuation lines of a field.
\* line is the line read last, hl the field's header_length so far.
RECURSIVE ReadContinuation(_, _, _, _, _)
ReadContinuation(line, buf, eof, hl, value) ==
    IF ~IsContinuation(line)
    THEN [st |-> "ok", line |-> line, rest |-> buf, hl |-> hl, value |-> value]
    ELSE IF FieldTooLong(hl + Len(line))
    THEN [st |-> "LineTooLong", line |-> line, rest |-> buf,
          hl |-> hl + Len(line), value |-> value]
    ELSE LET l == ReadLine(buf, eof) IN
         IF l.st = "wait"
         THEN [st |-> "wait", line |-> line, rest |-> buf, hl |-> hl,
               value |-> value]
         ELSE ReadContinuation(l.data, l.rest, eof, hl + Len(line),
                               value \o line)

\* the outer loop of read_headers, entered with the line read last
RECURSIVE ReadHeaderLoop(_, _, _, _, _)
ReadHeaderLoop(line, buf, eof, size, headers) ==
    IF line \in {CRLF, <<LF>>}
    THEN [st |-> "ok", headers |-> headers, rest |-> buf]
    ELSE
    LET sep_pos == Find(line, 58)
        name == Upper(RStripBlank(Take(line, sep_pos - 1)))
        value == LStrip(Drop(line, sep_pos))
        fail(e) == [st |-> e, headers |-> headers, rest |-> buf]
    IN
    IF sep_pos = 0 THEN fail("InvalidHeader")
    ELSE IF \E i \in 1..Len(name) : HdrForbidden(name[i])
    THEN fail("InvalidHeaderName")
    ELSE
    LET l == ReadLine(buf, eof) IN
    IF l.st = "wait" THEN fail("wait")
    ELSE
    LET c == IF IsContinuation(l.data)
             THEN ReadContinuation(l.data, l.rest, eof, Len(line), value)
             ELSE [st |-> IF FieldTooLong(Len(line))
                          THEN "LineTooLong" ELSE "ok",
                   line |-> l.data, rest |-> l.rest, hl |-> Len(line),
                   value |-> value]
    IN
    IF c.st # "ok" THEN fail(c.st)
    ELSE IF HeadersTooLong(size + c.hl) THEN fail("LineTooLong")
    ELSE ReadHeaderLoop(c.line, c.rest, eof, size + c.hl,
                        Append(headers, <<Strip(name), RStrip(c.value)>>))

read_headers(buf, eof) ==
    LET l == ReadLine(buf, eof) IN
    IF l.st = "wait" THEN [st |-> "wait", headers |-> <<>>, rest |-> buf]
    ELSE ReadHeaderLoop(l.data, l.rest, eof, 0, <<>>)

\* int(s) of a decimal text: [ok |-> FALSE] stands for ValueError
RECURSIVE DecDigits(_, _)
DecDigits(s, acc) ==
    IF s = <<>> THEN acc ELSE DecDigits(Tail(s), 10 * acc + (Head(s) - 48))

IntBase10(s) ==
    LET t == Strip(s)
        neg == t # <<>> /\ Head(t) = 45
        u == IF t # <<>> /\ Head(t) \in {43, 45} THEN Tail(t) ELSE t
    IN IF u = <<>> \/ \E i \in 1..Len(u) : u[i] < 48 \/ u[i] > 57
       THEN [ok |-> FALSE, val |-> 0]
       ELSE [ok |-> TRUE,
             val |-> IF neg THEN 0 - DecDigits(u, 0) ELSE DecDigits(u, 0)]

\* content_length is None, an integer (the length argument, or the 8 of
\* SEC-WEBSOCKET-KEY1) or the text of a header value
NoLength == [t |-> "None", n |-> 0, s |-> <<>>]
IntLength(n) == [t |-> "int", n |-> n, s |-> <<>>]
StrLength(s) == [t |-> "str", n |-> 0, s |-> s]

\* an int() that takes a text it cannot parse as 0
IntOfLenient(x) ==
    IF x.t = "int" THEN [ok |-> TRUE, val |-> x.n]
    ELSE IF IntBase10(x.s).ok THEN IntBase10(x.s)
    ELSE [ok |-> TRUE, val |-> 0]

\* int(content_length)
IntOf(x) == IF x.t = "int" THEN [ok |-> TRUE, val |-> x.n] ELSE IntBase10(x.s)

\* version <= (1, 0) on tuples
VersionLE(v, w) == v[1] < w[1] \/ (v[1] = w[1] /\ v[2] <= w[2])

\* 'close' / 'keep-alive' compared without value.lower()
ConnectionValueExact(value) == value

\* v = value.lower() of a CONNECTION header
ConnectionValue(value) == Lower(value)

\* the for loop of read_message over the headers: st holds chunked,
\* content_length, cmode and close_conn
RECURSIVE WalkHeaders(_, _, _)
WalkHeaders(headers, compression, st) ==
    IF headers = <<>> THEN st
    ELSE
    LET name == Head(headers)[1]
        value == Head(headers)[2]
        v == ConnectionValue(value)
        enc == Lower(value)
        st2 ==
          IF name = T_CONTENT_LENGTH
          THEN [st EXCEPT !.content_length = StrLength(value)]
          ELSE IF name = T_TRANSFER_ENCODING
          THEN [st EXCEPT !.chunked = Contains(Lower(value), T_chunked)]
          ELSE IF name = T_SEC_WEBSOCKET_KEY1
          THEN [st EXCEPT !.content_length = IntLength(8)]
          ELSE IF name = T_CONNECTION
          THEN IF v = T_close THEN [st EXCEPT !.close_conn = "True"]
               ELSE IF v = T_keep_alive THEN [st EXCEPT !.close_conn = "False"]
               ELSE st
          ELSE IF name = T_CONTENT_ENCODING /\ compression
          THEN IF Contains(enc, T_gzip) THEN [st EXCEPT !.cmode = "gzip"]
               ELSE IF Contains(enc, T_deflate)
               THEN [st EXCEPT !.cmode = "deflate"]
               ELSE st
          ELSE st
    IN WalkHeaders(Tail(headers), compression, st2)

\* read_message(version, length, compression, readall) on the reader's buffer;
\* payload is the body reader handed to read_payload
read_message(buf, eof, version, length, compression, readall) ==
    LET h == read_headers(buf, eof) IN
    IF h.st # "ok" THEN [st |-> h.st, rest |-> h.rest]
    ELSE
    LET w == WalkHeaders(h.headers, compression,
                         [chunked |-> FALSE, content_length |-> length,
                          cmode |-> None, close_conn |-> None])
        close_conn == IF w.close_conn = None
                      THEN VersionLE(version, <<1, 0>>)
                      ELSE w.close_conn = "True"
        msg(payload) == [st |-> "ok", rest |-> h.rest, headers |-> h.headers,
                         payload |-> payload, close |-> close_conn,
                         compression |-> w.cmode]
    IN
    IF w.chunked THEN msg([reader |-> "Chunked"])
    ELSE IF w.content_length # NoLength
    THEN LET n == IntOf(w.content_length) IN
         IF ~n.ok \/ n.val < 0 THEN [st |-> "InvalidLength", rest |-> h.rest]
         ELSE msg([reader |-> "Length", length |-> n.val])
    ELSE IF readall THEN msg([reader |-> "Eof"])
    ELSE msg([reader |-> "Length", length |-> 0])

(***************************************************************************)
(* SpecMessage: a header block arrives and read_message parses it.         *)
(***************************************************************************)
MaxFields == 2

WireFields ==
    {L_ConnClose, L_ConnCloseMixed, L_ConnKeepAliveMixed, L_ConnUpgrade,
     L_TEChunked, L_TEGzipChunked, L_TEIdentity, L_CL5, L_CLBad, L_CLNeg,
     L_Key1, L_CEGzip, L_Folded, L_NoColon}

Versions == {<<0, 9>>, <<1, 0>>, <<1, 1>>, <<2, 0>>}

LengthHints == {NoLength, IntLength(3)}

InitMessage ==
    /\ mpc = "init"
    /\ mwire \in UNION {[1..k -> WireFields] : k \in 0..MaxFields}
    /\ margs \in [version : Versions, length : LengthHints,
                  compression : BOOLEAN, readall : BOOLEAN]
    /\ mbuf = <<>>
    /\ mres = None
    /\ ChunkedOff /\ WsOff /\ XOff

\* the first bytes of the body, 'hi'
BodyBytes == <<104, 105>>

\* data_received: the header block, its blank line and the first bytes of
\* the body reach the reader
MsgDataReceived ==
    /\ mpc = "init"
    /\ mbuf' = mbuf \o Flatten(mwire) \o CRLF \o BodyBytes
    /\ mpc' = "fed"
    /\ UNCHANGED <<mwire, margs, mres, cvars, wvars, xvars>>

\* reader.read_message(version, length, compression, readall)
ReadMessage ==
    /\ mpc = "fed"
    /\ LET r == read_message(mbuf, FALSE, margs.version, margs.length,
                             margs.compression, margs.readall) IN
       /\ r.st # "wait"
       /\ mres' = r
       /\ mbuf' = r.rest
       /\ mpc' = IF r.st = "ok" THEN "done" ELSE "failed"
    /\ UNCHANGED <<mwire, margs, cvars, wvars, xvars>>

NextMessage == MsgDataReceived \/ ReadMessage

SpecMessage == InitMessage /\ [][NextMessage]_vars

\* the parsed headers of the message read_message returned
IsChunkedField(h) ==
    h[1] = T_TRANSFER_ENCODING /\ Contains(Lower(h[2]), T_chunked)

\* C2: read_message selects the body reader by strict priority: Chunked when
\* a Transfer-Encoding header value contains 'chunked' (also next to a
\* Content-Length); otherwise Length(n) when a length is present (header or
\* hint); otherwise Eof when readall is set and Length(0) when it is not.
C2_ReaderPriority ==
    mpc = "done" =>
        LET hs == mres.headers
            chunked == \E i \in 1..Len(hs) : IsChunkedField(hs[i])
            haslen == \/ \E i \in 1..Len(hs) :
                            hs[i][1] \in {T_CONTENT_LENGTH, T_SEC_WEBSOCKET_KEY1}
                      \/ margs.length # NoLength
        IN IF chunked THEN mres.payload.reader = "Chunked"
           ELSE IF haslen THEN mres.payload.reader = "Length"
           ELSE IF margs.readall THEN mres.payload.reader = "Eof"
           ELSE mres.payload = [reader |-> "Length", length |-> 0]

\* the wire fields that ask for close and for keep-alive
CloseFields == {L_ConnClose, L_ConnCloseMixed}
KeepAliveFields == {L_ConnKeepAliveMixed}

\* C3: the message's close flag is true when the Connection header value is
\* 'close' and false when it is 'keep-alive', in any letter case (the last
\* such header deciding); with no such header it is version <= (1,0): false
\* for HTTP/1.1 and above, true for HTTP/1.0 and below.
C3_CloseFlag ==
    mpc = "done" =>
        LET said == {i \in 1..Len(mwire) :
                        mwire[i] \in CloseFields \cup KeepAliveFields}
            last == CHOOSE i \in said : \A j \in said : j <= i
        IN IF said # {}
           THEN mres.close = (mwire[last] \in CloseFields)
           ELSE mres.close = (margs.version \in {<<0, 9>>, <<1, 0>>})

\* an HTTP/1.1 message whose only header is 'connection:  Close ' was read
C3_Witness ==
    /\ mpc = "done"
    /\ mwire = <<L_ConnCloseMixed>>
    /\ margs.version = <<1, 1>>
    /\ mres.close = TRUE

(***************************************************************************)
(* WebSocketProto (wsproto.py).                                            *)
(* An optional value is <<>> (None) or <<v>>.                              *)
(***************************************************************************)
OPCODE_TEXT == 1
OPCODE_BINARY == 2
OPCODE_CLOSE == 8
OPCODE_PING == 9
OPCODE_PONG == 10

Some(v) == <<v>>
Nothing == <<>>

\* a ^ b on bytes
RECURSIVE Xor(_, _)
Xor(a, b) ==
    IF a = 0 THEN b
    ELSE IF b = 0 THEN a
    ELSE 2 * Xor(a \div 2, b \div 2) + (((a % 2) + (b % 2)) % 2)

\* struct.pack('!H', n) / struct.pack('!Q', n)
RECURSIVE PackBE(_, _)
PackBE(n, width) ==
    IF width = 0 THEN <<>>
    ELSE PackBE(n \div 256, width - 1) \o <<n % 256>>

\* struct.unpack('!H', b)[0] / struct.unpack('!Q', b)[0]
RECURSIVE UnpackBE(_)
UnpackBE(b) ==
    IF b = <<>> THEN 0 ELSE 256 * UnpackBE(Take(b, Len(b) - 1)) + b[Len(b)]

\* a writer that takes the 7-bit form up to 126 inclusive
FrameBytesLE(message, opcode) ==
    LET n == Len(message)
        header == IF n <= 126 THEN <<128 + opcode, n>>
                  ELSE IF n < 65536 THEN <<128 + opcode, 126>> \o PackBE(n, 2)
                  ELSE <<128 + opcode, 127>> \o PackBE(n, 8)
    IN header \o message

\* _send_frame(message, opcode): the bytes handed to _wstream.write in one
\* call (FrameTooLargeException above 2^63 is out of the model's reach)
FrameBytes(message, opcode) ==
    LET n == Len(message)
        header == IF n < 126 THEN <<128 + opcode, n>>
                  ELSE IF n < 65536 THEN <<128 + opcode, 126>> \o PackBE(n, 2)
                  ELSE <<128 + opcode, 127>> \o PackBE(n, 8)
    IN header \o message

\* a close() that writes its frame whether or not one was written before
CloseUnguarded(code, message, st) ==
    [closed |-> TRUE,
     out |-> Append(st.out,
                    FrameBytes(PackBE(code, 2) \o message, OPCODE_CLOSE))]

\* close(code, message) on st = [closed, out]
Close(code, message, st) ==
    IF ~st.closed
    THEN [closed |-> TRUE,
          out |-> Append(st.out,
                         FrameBytes(PackBE(code, 2) \o message, OPCODE_CLOSE))]
    ELSE st

\* a pong that drops the ping's payload
PongEmpty(f_payload) == FrameBytes(<<>>, OPCODE_PONG)

\* self._send_frame(f_payload, opcode=self.OPCODE_PONG)
Pong(f_payload) == FrameBytes(f_payload, OPCODE_PONG)

\* the mask applied with i counted from 1
UnmaskFrom1(payload, mask) ==
    [i \in 1..Len(payload) |-> Xor(payload[i], mask[(i % 4) + 1])]

\* the payload with mask[i % 4] applied (index i from 0)
Unmask(payload, mask) ==
    [i \in 1..Len(payload) |-> Xor(payload[i], mask[((i - 1) % 4) + 1])]

(***************************************************************************)
(* _parse_header(data): [st, close, fin, opcode, has_mask, length].        *)
(* close holds the codes of the close() calls made before raising.         *)
(***************************************************************************)
_parse_header(data, chunksLen) ==
    LET first_byte == data[1]
        second_byte == data[2]
        fin == (first_byte \div 128) % 2
        rsv1 == (first_byte \div 64) % 2
        rsv2 == (first_byte \div 32) % 2
        rsv3 == (first_byte \div 16) % 2
        opcode == first_byte % 16
        has_mask == (second_byte \div 128) % 2
        length == second_byte % 128
        hdr(st, cl) == [st |-> st, close |-> cl, fin |-> fin,
                        opcode |-> opcode, has_mask |-> has_mask,
                        length |-> length]
    IN
    IF Len(data) # 2
    THEN [st |-> "WebSocketError", close |-> <<>>, fin |-> 0, opcode |-> 0,
          has_mask |-> 0, length |-> 0]
    ELSE IF rsv1 = 1 \/ rsv2 = 1 \/ rsv3 = 1
    THEN hdr("WebSocketError", <<1002>>)
    ELSE IF opcode > 7 /\ fin = 0 THEN hdr("WebSocketError", <<1002>>)
    ELSE IF chunksLen > 0 /\ fin = 0 /\ opcode = 0
    THEN hdr("WebSocketError", <<1002>>)
    ELSE IF chunksLen > 0 /\ fin = 1
            /\ OPCODE_TEXT <= opcode /\ opcode <= OPCODE_BINARY
    THEN hdr("WebSocketError", <<1002>>)
    ELSE IF opcode > 7 /\ length > 125
    THEN hdr("NameError", <<1002>>)   \* FrameTooLargeException is undefined
    ELSE hdr("ok", <<>>)

(***************************************************************************)
(* _receive_frame, resumed at position pc with locals loc on the buffered  *)
(* bytes.  The result is [st, pc, loc, rest, close, err]:                  *)
(*   st = "wait"   suspended in stream.read at pc                          *)
(*   st = "none"   returned None (EOF before a header)                     *)
(*   st = "frame"  returned (loc.fin, loc.f_opcode, loc.payload)           *)
(*   st = "raise"  raised err after the close() calls in close             *)
(***************************************************************************)
FreshFrame(loc) ==
    [loc EXCEPT !.fin = 0, !.f_opcode = 0, !.has_mask = 0, !.length = 0,
                !.mask = <<>>, !.payload = <<>>]

RFResult(st, pc, loc, rest, close, err) ==
    [st |-> st, pc |-> pc, loc |-> loc, rest |-> rest, close |-> close,
     err |-> err]

RF_payload_read(loc, buf, r) ==
    IF loc.length = 0
    THEN RFResult("frame", "hdr", loc, buf, <<>>, "")
    ELSE IF r.st = "wait" THEN RFResult("wait", "payload", loc, buf, <<>>, "")
    ELSE IF Len(r.data) # loc.length
    THEN RFResult("raise", "hdr", loc, r.rest, <<>>, "WebSocketError")
    ELSE RFResult("frame", "hdr",
                  [loc EXCEPT !.payload = IF loc.mask # <<>>
                                          THEN Unmask(r.data, loc.mask)
                                          ELSE r.data],
                  r.rest, <<>>, "")

RF_payload(loc, buf, eof) ==
    RF_payload_read(loc, buf, StreamRead(buf, eof, loc.length))

RF_mask_read(loc, buf, eof, r) ==
    IF loc.has_mask = 0 THEN RF_payload(loc, buf, eof)
    ELSE IF r.st = "wait" THEN RFResult("wait", "mask", loc, buf, <<>>, "")
    ELSE IF Len(r.data) # 4
    THEN RFResult("raise", "hdr", loc, r.rest, <<>>, "WebSocketError")
    ELSE RF_payload([loc EXCEPT !.mask = r.data], r.rest, eof)

RF_mask(loc, buf, eof) == RF_mask_read(loc, buf, eof, StreamRead(buf, eof, 4))

RF_length_read(loc, buf, eof, n, r) ==
    IF loc.length < 126 THEN RF_mask(loc, buf, eof)
    ELSE IF r.st = "wait" THEN RFResult("wait", "length", loc, buf, <<>>, "")
    ELSE IF Len(r.data) # n
    THEN RFResult("raise", "hdr", loc, r.rest, <<1000>>, "WebSocketError")
    ELSE RF_mask([loc EXCEPT !.length = UnpackBE(r.data)], r.rest, eof)

RF_length_n(loc, buf, eof, n) ==
    RF_length_read(loc, buf, eof, n, StreamRead(buf, eof, n))

RF_length(loc, buf, eof) ==
    RF_length_n(loc, buf, eof, IF loc.length = 126 THEN 2 ELSE 8)

RF_header_parsed(loc, eof, r, h) ==
    IF r.st = "wait" THEN RFResult("wait", "hdr", loc, r.rest, <<>>, "")
    ELSE IF r.data = <<>> THEN RFResult("none", "hdr", loc, r.rest, <<>>, "")
    ELSE IF h.st # "ok"
    THEN RFResult("raise", "hdr", loc, r.rest, h.close, h.st)
    ELSE RF_length([loc EXCEPT !.fin = h.fin, !.f_opcode = h.opcode,
                               !.has_mask = h.has_mask, !.length = h.length,
                               !.mask = <<>>, !.payload = <<>>],
                   r.rest, eof)

RF_header_read(loc, eof, r, chunksLen) ==
    RF_header_parsed(loc, eof, r, _parse_header(r.data, chunksLen))

RF_header(loc, buf, eof, chunksLen) ==
    RF_header_read(loc, eof, StreamRead(buf, eof, 2), chunksLen)

_receive_frame(pc, loc, buf, eof, chunksLen) ==
    IF pc = "hdr" THEN RF_header(FreshFrame(loc), buf, eof, chunksLen)
    ELSE IF pc = "length" THEN RF_length(loc, buf, eof)
    ELSE IF pc = "mask" THEN RF_mask(loc, buf, eof)
    ELSE RF_payload(loc, buf, eof)

(***************************************************************************)
(* bytearray.decode('utf-8'): whether the bytes are well-formed UTF-8.     *)
(***************************************************************************)
IsCont(b) == b >= 128 /\ b <= 191

RECURSIVE Utf8Valid(_)
Utf8Valid(b) ==
    IF b = <<>> THEN TRUE
    ELSE
    LET c == b[1]
        n == Len(b)
        conts(k) == n >= k /\ \A i \in 3..k : IsCont(b[i])
    IN
    IF c < 128 THEN Utf8Valid(Drop(b, 1))
    ELSE IF c >= 194 /\ c <= 223
    THEN n >= 2 /\ IsCont(b[2]) /\ Utf8Valid(Drop(b, 2))
    ELSE IF c >= 224 /\ c <= 239
    THEN /\ conts(3)
         /\ IsCont(b[2])
         /\ (c = 224 => b[2] >= 160)
         /\ (c = 237 => b[2] <= 159)
         /\ Utf8Valid(Drop(b, 3))
    ELSE IF c >= 240 /\ c <= 244
    THEN /\ conts(4)
         /\ IsCont(b[2])
         /\ (c = 240 => b[2] >= 144)
         /\ (c = 244 => b[2] <= 143)
         /\ Utf8Valid(Drop(b, 4))
    ELSE FALSE

(***************************************************************************)
(* _receive and receive().                                                 *)
(* The session fields the loop reads and writes travel in                  *)
(*   se = [closed, out, close_code, close_message]                         *)
(* and the outcome of a call is                                            *)
(*   [kind, binary, data, err] with kind "pending" (still inside the call),*)
(*   "empty" (returned None), "message" or "raised".                       *)
(***************************************************************************)
Pending == [kind |-> "pending", binary |-> FALSE, data |-> <<>>, err |-> ""]
Empty == [kind |-> "empty", binary |-> FALSE, data |-> <<>>, err |-> ""]
Raised(e) == [kind |-> "raised", binary |-> FALSE, data |-> <<>>, err |-> e]
Message(d, bin) == [kind |-> "message", binary |-> bin, data |-> d, err |-> ""]

\* str(x): the text "bytearray(b'...')", no longer a bytes-like object
PyBytes(b) == [t |-> "bytes", b |-> b]
PyStr(x) == [t |-> "str", b |-> x.b]

\* struct.unpack('!H', x)[0]: TypeError unless x is bytes-like
struct_unpack_H(x) ==
    IF x.t = "bytes" /\ Len(x.b) = 2
    THEN [ok |-> TRUE, val |-> UnpackBE(x.b)]
    ELSE [ok |-> FALSE, val |-> 0]

\* the close() calls of codes cs, in order
RECURSIVE CloseAll(_, _)
CloseAll(cs, st) ==
    IF cs = <<>> THEN st ELSE CloseAll(Tail(cs), Close(Head(cs), <<>>, st))

WithClose(se, code) ==
    LET c == Close(code, <<>>, [closed |-> se.closed, out |-> se.out])
    IN [se EXCEPT !.closed = c.closed, !.out = c.out]

IterResult(pc, loc, rest, se, ret) ==
    [pc |-> pc, loc |-> loc, rest |-> rest, se |-> se, ret |-> ret]

\* receive() after _receive returned (result, is_binary)
ReceiveReturn(loc, rest, se) ==
    IF loc.opcode = OPCODE_BINARY
    THEN IterResult("idle", loc, rest, se, Message(loc.result, TRUE))
    ELSE IF Utf8Valid(loc.result)
    THEN IterResult("idle", loc, rest, se, Message(loc.result, FALSE))
    ELSE IterResult("idle", loc, rest, WithClose(se, 1007),
                    Raised("UnicodeDecodeError"))

\* result.extend(f_payload) with the payload put in front
ExtendFront(result, f_payload) == f_payload \o result

\* result.extend(f_payload)
Extend(result, f_payload) == result \o f_payload

\* the body of _receive's loop for the frame (loc.fin, loc.f_opcode,
\* loc.payload)
HandleFrame(loc, rest, se) ==
    LET f_fin == loc.fin
        f_opcode == loc.f_opcode
        f_payload == loc.payload
        done(s, ret) == IterResult("idle", loc, rest, s, ret)
        more(l, s) == IterResult("hdr", l, rest, s, Pending)
        extend(l) ==
            LET l2 == [l EXCEPT !.result = Extend(l.result, f_payload)] IN
            IF f_fin = 1 THEN ReceiveReturn(l2, rest, se) ELSE more(l2, se)
    IN
    IF f_opcode \in {OPCODE_TEXT, OPCODE_BINARY}
    THEN IF loc.opcode = -1 THEN extend([loc EXCEPT !.opcode = f_opcode])
         ELSE done(se, Raised("WebSocketError"))
    ELSE IF f_opcode = 0
    THEN IF loc.opcode = -1
         THEN done(WithClose(se, 1002), Raised("WebSocketError"))
         ELSE extend(loc)
    ELSE IF f_opcode = OPCODE_CLOSE
    THEN LET u == struct_unpack_H(PyStr(PyBytes(Take(f_payload, 2))))
             se2 == IF Len(f_payload) >= 2
                    THEN [se EXCEPT !.close_code = Some(u.val),
                                    !.close_message = Some(Drop(f_payload, 2))]
                    ELSE se
             code == se2.close_code
         IN
         IF Len(f_payload) >= 2 /\ ~u.ok THEN done(se, Raised("TypeError"))
         ELSE IF Len(f_payload) = 1 THEN done(se, Raised("WebSocketError"))
         ELSE IF code = Nothing \/ (code[1] >= 1000 /\ code[1] < 5000)
         THEN done(WithClose(se2, 1000), Empty)
         ELSE done(WithClose(se2, 1002), Raised("WebSocketError"))
    ELSE IF f_opcode = OPCODE_PING
    THEN more(loc, [se EXCEPT !.out = Append(se.out, Pong(f_payload))])
    ELSE IF f_opcode = OPCODE_PONG THEN more(loc, se)
    ELSE done(se, Raised("WebSocketError"))

\* one turn of _receive's loop inside receive(): resume _receive_frame at pc
\* and handle what it yields
ReceiveIter_frame(loc, se, rf, se1) ==
    IF rf.st = "wait" THEN IterResult(rf.pc, rf.loc, rf.rest, se, Pending)
    ELSE IF rf.st = "raise"
    THEN IF se1.closed THEN IterResult("idle", rf.loc, rf.rest, se1, Empty)
         ELSE IterResult("idle", rf.loc, rf.rest, se1, Raised(rf.err))
    ELSE IF rf.st = "none"
    THEN IF loc.result # <<>>
         THEN IterResult("idle", rf.loc, rf.rest, se, Raised("WebSocketError"))
         ELSE IterResult("idle", rf.loc, rf.rest, se, Empty)
    ELSE HandleFrame(rf.loc, rf.rest, se)

SessionAfter(se, c) == [se EXCEPT !.closed = c.closed, !.out = c.out]

ReceiveIter_closes(loc, se, rf) ==
    ReceiveIter_frame(loc, se, rf,
        SessionAfter(se, CloseAll(rf.close,
                                  [closed |-> se.closed, out |-> se.out])))

ReceiveIter(pc, loc, buf, eof, se, chunksLen) ==
    ReceiveIter_closes(loc, se, _receive_frame(pc, loc, buf, eof, chunksLen))

(***************************************************************************)
(* SpecWS: a peer feeds frames to an open session; the application calls   *)
(* receive() and close().                                                  *)
(***************************************************************************)
MaxFrames == 3

MaskKey == <<255, 0, 15, 97>>

\* a frame as the peer builds it: rsv is the three reserved bits, key the
\* masking key (<<>>: not masked); len7 >= 0 stands for a frame cut after a
\* header that announces that 7-bit length
Frame(fin, rsv, opcode, key, payload, len7) ==
    [fin |-> fin, rsv |-> rsv, opcode |-> opcode, key |-> key,
     payload |-> payload, len7 |-> len7]

F_Text0 == Frame(0, 0, 1, MaskKey, <<195>>, -1)
F_Bin0 == Frame(0, 0, 2, <<>>, <<97>>, -1)
F_Cont0 == Frame(0, 0, 0, <<>>, <<169>>, -1)
F_Cont1 == Frame(1, 0, 0, MaskKey, <<169>>, -1)
F_Text1 == Frame(1, 0, 1, <<>>, <<97>>, -1)
F_Ping == Frame(1, 0, 9, MaskKey, <<112, 105>>, -1)
F_Pong == Frame(1, 0, 10, <<>>, <<113>>, -1)
F_Close1000 == Frame(1, 0, 8, <<>>, <<3, 232, 98>>, -1)
F_Close999 == Frame(1, 0, 8, <<>>, <<3, 231>>, -1)
F_CloseEmpty == Frame(1, 0, 8, <<>>, <<>>, -1)
F_Rsv1 == Frame(1, 4, 1, <<>>, <<>>, -1)
F_PingFin0 == Frame(0, 0, 9, <<>>, <<>>, -1)
F_Ping126 == Frame(1, 0, 9, <<>>, <<>>, 126)

PeerFrames ==
    {F_Text0, F_Bin0, F_Cont0, F_Cont1, F_Text1, F_Ping, F_Pong, F_Close1000,
     F_Close999, F_CloseEmpty, F_Rsv1, F_PingFin0, F_Ping126}

\* the frame's bytes on the wire (RFC 6455 5.2), payloads below 126 bytes
EncodeFrame(f) ==
    LET b1 == 128 * f.fin + 16 * f.rsv + f.opcode
        m == IF f.key = <<>> THEN 0 ELSE 128
    IN IF f.len7 >= 0 THEN <<b1, m + f.len7>>
       ELSE <<b1, m + Len(f.payload)>> \o f.key
            \o (IF f.key = <<>> THEN f.payload ELSE Unmask(f.payload, f.key))

FreshLocals ==
    [opcode |-> -1, result |-> <<>>, fin |-> 0, f_opcode |-> 0,
     has_mask |-> 0, length |-> 0, mask |-> <<>>, payload |-> <<>>]

\* ghost: the number of frames the peer sent, those of them receive() has not
\* taken yet, the frames the current receive() call took, whether the reader
\* is still at a frame boundary of the peer, whether the application's
\* close() wrote the close frame, and whether the application called close()
\* on a session that was closed already
FreshLog ==
    [nsent |-> 0, queue |-> <<>>, cur |-> <<>>, sync |-> TRUE,
     lwrote |-> FALSE, reclosed |-> FALSE]

InitWS ==
    /\ wpc = "idle"
    /\ wbuf = <<>>
    /\ weof = FALSE
    /\ wout = <<>>
    /\ closed = FALSE
    /\ close_code = Nothing
    /\ close_message = Nothing
    /\ wchunks = <<>>
    /\ wloc = FreshLocals
    /\ wret = Pending
    /\ wlog = FreshLog
    /\ ChunkedOff /\ MsgOff /\ XOff

\* the transport delivers one frame of the peer: _rstream.feed_data
PeerSend ==
    /\ wpc # "off"
    /\ ~weof
    /\ wlog.nsent < MaxFrames
    /\ \E f \in PeerFrames :
          /\ wbuf' = wbuf \o EncodeFrame(f)
          /\ wlog' = [wlog EXCEPT !.nsent = @ + 1, !.queue = Append(@, f)]
    /\ UNCHANGED <<wpc, weof, wout, closed, close_code, close_message,
                   wchunks, wloc, wret, cvars, mvars, xvars>>

\* the peer ends the stream: _rstream.feed_eof
PeerEof ==
    /\ wpc # "off"
    /\ ~weof
    /\ weof' = TRUE
    /\ UNCHANGED <<wpc, wbuf, wout, closed, close_code, close_message,
                   wchunks, wloc, wret, wlog, cvars, mvars, xvars>>

\* a receive() whose accumulator is made once and still holds the message
\* returned last
ReceiveCallStaleResult ==
    /\ wpc = "idle"
    /\ wpc' = "hdr"
    /\ wloc' = [FreshLocals EXCEPT !.result = wret.data]
    /\ wret' = Pending
    /\ wlog' = [wlog EXCEPT !.cur = <<>>]
    /\ UNCHANGED <<wbuf, weof, wout, closed, close_code, close_message,
                   wchunks, cvars, mvars, xvars>>

\* the application calls receive()
ReceiveCall ==
    /\ wpc = "idle"
    /\ wpc' = "hdr"
    /\ wloc' = FreshLocals
    /\ wret' = Pending
    /\ wlog' = [wlog EXCEPT !.cur = <<>>]
    /\ UNCHANGED <<wbuf, weof, wout, closed, close_code, close_message,
                   wchunks, cvars, mvars, xvars>>

\* ghost: the log after a turn that went from buffer buf to r.rest
LogTurn(log, pc, buf, r) ==
    LET whole == /\ log.sync
                 /\ pc = "hdr"
                 /\ r.pc \in {"hdr", "idle"}
                 /\ log.queue # <<>>
                 /\ StartsWith(buf, EncodeFrame(Head(log.queue)))
                 /\ Len(buf) - Len(r.rest) = Len(EncodeFrame(Head(log.queue)))
    IN IF whole
       THEN [log EXCEPT !.queue = Tail(@), !.cur = Append(@, Head(log.queue))]
       ELSE IF Len(r.rest) = Len(buf) THEN log
       ELSE [log EXCEPT !.sync = FALSE]

\* receive() runs one turn of its loop: it reads a frame from the buffered
\* bytes (or learns of EOF) and handles it
ReceiveTurn ==
    /\ wpc \in {"hdr", "length", "mask", "payload"}
    /\ \E r \in {ReceiveIter(wpc, wloc, wbuf, weof,
                            [closed |-> closed, out |-> wout,
                             close_code |-> close_code,
                             close_message |-> close_message],
                            Len(wchunks))} :
       /\ r.pc # wpc \/ r.rest # wbuf \/ r.ret.kind # "pending"
       /\ wpc' = r.pc
       /\ wloc' = IF r.pc = "idle" THEN FreshLocals ELSE r.loc
       /\ wbuf' = r.rest
       /\ wret' = r.ret
       /\ closed' = r.se.closed
       /\ wout' = r.se.out
       /\ close_code' = r.se.close_code
       /\ close_message' = r.se.close_message
       /\ wlog' = LogTurn(wlog, wpc, wbuf, r)

ReceiveStep == ReceiveTurn /\ UNCHANGED <<weof, wchunks, cvars, mvars, xvars>>

\* the application calls close(): receive() is suspended or not running
LocalClose ==
    /\ wpc \in {"idle", "hdr", "length", "mask", "payload"}
    /\ \E c \in {Close(1000, <<>>, [closed |-> closed, out |-> wout])} :
       /\ closed' = c.closed
       /\ wout' = c.out
    /\ wlog' = [wlog EXCEPT !.lwrote = @ \/ ~closed, !.reclosed = @ \/ closed]
    /\ UNCHANGED <<wpc, wbuf, weof, close_code, close_message, wchunks, wloc,
                   wret, cvars, mvars, xvars>>

NextWS == PeerSend \/ PeerEof \/ ReceiveCall \/ ReceiveStep \/ LocalClose

SpecWS == InitWS /\ [][NextWS]_vars

(***************************************************************************)
(* Properties of the session.                                              *)
(***************************************************************************)
Last(q) == q[Len(q)]
Front(q) == Take(q, Len(q) - 1)

IsData(f) == f.opcode \in {1, 2} /\ f.rsv = 0 /\ f.len7 < 0
IsContFrame(f) == f.opcode = 0 /\ f.rsv = 0 /\ f.len7 < 0
IsPingPong(f) ==
    /\ f.opcode \in {9, 10} /\ f.fin = 1 /\ f.rsv = 0 /\ f.len7 < 0
    /\ Len(f.payload) <= 125

\* fs opens a fragmented message and leaves it in progress
InProgress(fs) ==
    /\ fs # <<>>
    /\ IsData(fs[1]) /\ fs[1].fin = 0
    /\ \A i \in 2..Len(fs) :
          (IsContFrame(fs[i]) /\ fs[i].fin = 0) \/ IsPingPong(fs[i])

\* fs is a whole fragmented message with pings and pongs in between
IsFragmentedRun(fs) ==
    /\ Len(fs) >= 2
    /\ InProgress(Front(fs))
    /\ IsContFrame(Last(fs)) /\ Last(fs).fin = 1

RECURSIVE DataOf(_)
DataOf(fs) ==
    IF fs = <<>> THEN <<>>
    ELSE (IF Head(fs).opcode \in {0, 1, 2} THEN Head(fs).payload ELSE <<>>)
         \o DataOf(Tail(fs))

CloseFrame(code, message) ==
    <<136, 2 + Len(message), code \div 256, code % 256>> \o message

IsCloseWrite(w) == w[1] = 136

CloseWrites(out) == {i \in 1..Len(out) : IsCloseWrite(out[i])}

\* C4 (as claimed): a text or binary frame with FIN=0, then continuation
\* frames with FIN=0 and one with FIN=1, pings and pongs in between, make
\* receive() return one message: the data and continuation payloads in
\* arrival order, typed by the first frame's opcode.
C4_Reassembly ==
    (wlog.sync /\ IsFragmentedRun(wlog.cur)) =>
        wret = Message(DataOf(wlog.cur), wlog.cur[1].opcode = 2)

\* C4 (amended): the turn of receive() that takes the FIN=1 continuation of
\* such a run returns that message when it is binary or its reassembled
\* payload is well-formed UTF-8 and writes nothing; a text message that is
\* not well-formed makes receive() raise UnicodeDecodeError on a closed
\* session, after writing a close frame of code 1007 unless the session was
\* closed already.
C4_ReassemblyValid ==
    [][(wlog.cur' # wlog.cur /\ wlog'.sync /\ IsFragmentedRun(wlog.cur')) =>
          LET data == DataOf(wlog.cur')
              binary == wlog.cur'[1].opcode = 2
          IN IF binary \/ Utf8Valid(data)
             THEN /\ wret' = Message(data, binary)
                  /\ wout' = wout
                  /\ closed' = closed
             ELSE /\ wret' = Raised("UnicodeDecodeError")
                  /\ closed'
                  /\ wout' = IF closed THEN wout
                             ELSE Append(wout, CloseFrame(1007, <<>>))]_vars

\* a text message of two fragments with a ping in between was returned
C4_Witness ==
    /\ wlog.sync
    /\ wlog.cur = <<F_Text0, F_Ping, F_Cont1>>
    /\ wret = Message(<<195, 169>>, FALSE)
    /\ wout = <<Pong(F_Ping.payload)>>

\* the frame's header breaks frame policy
ViolatesPolicy(f) ==
    \/ f.rsv # 0
    \/ f.opcode > 7 /\ f.fin = 0
    \/ f.opcode > 7 /\ (IF f.len7 >= 0 THEN f.len7 ELSE Len(f.payload)) > 125

\* C5: when a received frame header violates frame policy (a reserved bit
\* set, a control frame with FIN=0, a control frame announcing more than 125
\* bytes) the session writes a close frame with code 1002 and receive() ends
\* with an error raised to its caller.
C5_PolicyViolation ==
    (/\ wlog.sync /\ ~wlog.lwrote /\ wlog.cur # <<>>
     /\ wpc = "idle"
     /\ ViolatesPolicy(Last(wlog.cur))) =>
        /\ wret.kind = "raised"
        /\ wout # <<>> /\ Last(wout) = CloseFrame(1002, <<>>)

\* C6: a text or binary frame arriving while a fragmented message is in
\* progress, or a continuation frame arriving while none is, makes the
\* session write a close frame with code 1002 and receive() fail.
C6_Sequencing ==
    (/\ wlog.sync /\ ~wlog.lwrote /\ wlog.cur # <<>>
     /\ wpc = "idle"
     /\ \/ InProgress(Front(wlog.cur)) /\ IsData(Last(wlog.cur))
        \/ /\ \A i \in 1..(Len(wlog.cur) - 1) : IsPingPong(wlog.cur[i])
           /\ IsContFrame(Last(wlog.cur))) =>
        /\ wret.kind = "raised"
        /\ wout # <<>> /\ Last(wout) = CloseFrame(1002, <<>>)

\* the last frame receive() took is a close frame with a code
ClosePayload == Last(wlog.cur).payload
GotCloseWithCode ==
    /\ wlog.sync /\ wlog.cur # <<>> /\ wpc = "idle"
    /\ Last(wlog.cur).opcode = 8 /\ ~ViolatesPolicy(Last(wlog.cur))
    /\ Len(ClosePayload) >= 2
ReceivedCode == 256 * ClosePayload[1] + ClosePayload[2]

\* C7: a close frame whose payload has at least 2 bytes and whose code c is
\* in [1000, 5000) makes receive() set close_code = c and close_message to
\* the rest of the payload, write one close frame (if none was written
\* before), mark the session closed and return empty without raising.
C7_CloseHandshake ==
    (GotCloseWithCode /\ ReceivedCode >= 1000 /\ ReceivedCode < 5000) =>
        /\ close_code = Some(ReceivedCode)
        /\ close_message = Some(Drop(ClosePayload, 2))
        /\ closed
        /\ Cardinality(CloseWrites(wout)) = 1
        /\ wret = Empty

\* C8: the close frame written in reply to a received close frame carries
\* the received code when it is in [1000, 5000) and 1002 otherwise, and in
\* the latter case receive() raises.
C8_CloseReply ==
    (GotCloseWithCode /\ ~wlog.lwrote) =>
        LET ok == ReceivedCode >= 1000 /\ ReceivedCode < 5000 IN
        /\ wout # <<>>
        /\ Last(wout) = CloseFrame(IF ok THEN ReceivedCode ELSE 1002, <<>>)
        /\ ~ok => wret.kind = "raised"

\* C9: over local close() calls, received close frames and protocol errors
\* the session writes at most one close frame, and closed never goes back
\* to false.
C9_CloseOnce ==
    [][/\ closed => closed'
       /\ Cardinality(CloseWrites(wout')) <= 1
       /\ closed' = (CloseWrites(wout') # {})]_vars

\* close() was called on a closed session and one close frame is on the wire
C9_Witness ==
    /\ wlog.reclosed
    /\ closed
    /\ Cardinality(CloseWrites(wout)) = 1

\* the step took frame f off the stream
Took(f) == wlog.cur' = Append(wlog.cur, f) /\ wlog.sync

\* C10: for every ping received the session writes exactly one pong frame
\* (0x8A) with the same payload in the step that takes the ping, before it
\* reads the next frame, and stays inside receive(); a pong produces no
\* output and receive() stays inside its loop.
C10_PingPong ==
    [][\A f \in PeerFrames :
          (Took(f) /\ IsPingPong(f)) =>
              /\ wpc' = "hdr" /\ wret'.kind = "pending"
              /\ closed' = closed
              /\ IF f.opcode = 9
                 THEN wout' = Append(wout, <<138, Len(f.payload)>> \o f.payload)
                 ELSE wout' = wout]_vars

\* a masked ping was answered and receive() waits for the next frame
C10_Witness ==
    /\ wlog.sync
    /\ wlog.cur # <<>> /\ Last(wlog.cur) = F_Ping
    /\ wout # <<>> /\ Last(wout) = <<138, 2, 112, 105>>
    /\ wpc = "hdr"

(***************************************************************************)
(* The WebSocket handshake (wsproto.py): serve() and connect().            *)
(* hashlib.sha1 on byte sequences; a 32-bit word is <<hi, lo>>, two 16-bit *)
(* halves.                                                                 *)
(***************************************************************************)
\* a and b combined bit by bit over n bits: op is "and", "or" or "xor"
RECURSIVE Bits2(_, _, _, _)
Bits2(op, a, b, n) ==
    IF n = 0 THEN 0
    ELSE LET x == a % 2
             y == b % 2
             z == IF op = "and" THEN x * y
                  ELSE IF op = "or" THEN (x + y + 1) \div 2
                  ELSE (x + y) % 2
         IN z + 2 * Bits2(op, a \div 2, b \div 2, n - 1)

WAnd(a, b) == <<Bits2("and", a[1], b[1], 16), Bits2("and", a[2], b[2], 16)>>
WOr(a, b) == <<Bits2("or", a[1], b[1], 16), Bits2("or", a[2], b[2], 16)>>
WXor(a, b) == <<Bits2("xor", a[1], b[1], 16), Bits2("xor", a[2], b[2], 16)>>
WNot(a) == <<65535 - a[1], 65535 - a[2]>>
WAdd(a, b) ==
    <<(a[1] + b[1] + ((a[2] + b[2]) \div 65536)) % 65536,
      (a[2] + b[2]) % 65536>>

RECURSIVE Pow2(_)
Pow2(n) == IF n = 0 THEN 1 ELSE 2 * Pow2(n - 1)

\* rotate left by n bits, 0 < n < 32
RotlSmall(a, n) ==
    <<((a[1] * Pow2(n)) % 65536) + (a[2] \div Pow2(16 - n)),
      ((a[2] * Pow2(n)) % 65536) + (a[1] \div Pow2(16 - n))>>
Rotl(a, n) ==
    IF n < 16 THEN RotlSmall(a, n) ELSE RotlSmall(<<a[2], a[1]>>, n - 16)

RECURSIVE Zeros(_)
Zeros(n) == IF n = 0 THEN <<>> ELSE <<0>> \o Zeros(n - 1)

\* the message with the 1 bit, the zero fill and the 64-bit bit count
Sha1Pad(msg) ==
    LET n == Len(msg)
        bits == 8 * n
    IN msg \o <<128>> \o Zeros((119 - (n % 64)) % 64)
       \o <<0, 0, 0, 0, 0, (bits \div 65536) % 256, (bits \div 256) % 256,
            bits % 256>>

WordAt(m, i) == <<256 * m[i] + m[i + 1], 256 * m[i + 2] + m[i + 3]>>

\* the 80 words of a block's message schedule
RECURSIVE Sha1Schedule(_)
Sha1Schedule(ws) ==
    IF Len(ws) = 80 THEN ws
    ELSE LET t == Len(ws) + 1
         IN Sha1Schedule(Append(ws,
                Rotl(WXor(WXor(ws[t - 3], ws[t - 8]),
                          WXor(ws[t - 14], ws[t - 16])), 1)))

Sha1F(t, b, c, d) ==
    IF t <= 20 THEN WOr(WAnd(b, c), WAnd(WNot(b), d))
    ELSE IF t <= 40 THEN WXor(WXor(b, c), d)
    ELSE IF t <= 60 THEN WOr(WOr(WAnd(b, c), WAnd(b, d)), WAnd(c, d))
    ELSE WXor(WXor(b, c), d)

\* 0x5A827999, 0x6ED9EBA1, 0x8F1BBCDC, 0xCA62C1D6
Sha1K(t) ==
    IF t <= 20 THEN <<23170, 31129>>
    ELSE IF t <= 40 THEN <<28377, 60321>>
    ELSE IF t <= 60 THEN <<36635, 48348>>
    ELSE <<51810, 49622>>

\* rounds t..80 on the working state s = <<a, b, c, d, e>>
RECURSIVE Sha1Rounds(_, _, _)
Sha1Rounds(t, s, ws) ==
    IF t > 80 \/ Len(s) # 5 THEN s
    ELSE Sha1Rounds(t + 1,
            <<WAdd(WAdd(WAdd(Rotl(s[1], 5), Sha1F(t, s[2], s[3], s[4])),
                        WAdd(s[5], Sha1K(t))), ws[t]),
              s[1], Rotl(s[2], 30), s[3], s[4]>>,
            ws)

\* the blocks of m from byte i on, folded into the hash state h
RECURSIVE Sha1Blocks(_, _, _)
Sha1Blocks(m, i, h) ==
    IF i > Len(m) \/ Len(h) # 5 THEN h
    ELSE LET ws == Sha1Schedule([j \in 1..16 |-> WordAt(m, i + 4 * (j - 1))])
             s == Sha1Rounds(1, h, ws)
         IN Sha1Blocks(m, i + 64, [k \in 1..5 |-> WAdd(h[k], s[k])])

\* 0x67452301, 0xEFCDAB89, 0x98BADCFE, 0x10325476, 0xC3D2E1F0
Sha1Init ==
    <<<<26437, 8961>>, <<61389, 43913>>, <<39098, 56574>>, <<4146, 21622>>,
      <<50130, 57840>>>>

Sha1Bytes(h) ==
    [i \in 1..20 |->
        LET w == h[((i - 1) \div 4) + 1]
            half == IF ((i - 1) % 4) < 2 THEN w[1] ELSE w[2]
        IN IF (i - 1) % 2 = 0 THEN half \div 256 ELSE half % 256]

\* hashlib.sha1(msg).digest()
sha1(msg) == Sha1Bytes(Sha1Blocks(Sha1Pad(msg), 1, Sha1Init))

(***************************************************************************)
(* base64.b64encode and base64.b64decode (binascii.a2b_base64, not strict) *)
(***************************************************************************)
\* the character of a 6-bit value
B64Char(v) ==
    IF v < 26 THEN 65 + v
    ELSE IF v < 52 THEN 97 + (v - 26)
    ELSE IF v < 62 THEN 48 + (v - 52)
    ELSE IF v = 62 THEN 43 ELSE 47

\* the 6-bit value of a character of the alphabet, -1 for any other
B64Value(c) ==
    IF c >= 65 /\ c <= 90 THEN c - 65
    ELSE IF c >= 97 /\ c <= 122 THEN c - 97 + 26
    ELSE IF c >= 48 /\ c <= 57 THEN c - 48 + 52
    ELSE IF c = 43 THEN 62
    ELSE IF c = 47 THEN 63
    ELSE -1

\* the pad character '=' is 61
RECURSIVE b64encode(_)
b64encode(b) ==
    IF b = <<>> THEN <<>>
    ELSE IF Len(b) = 1
    THEN <<B64Char(b[1] \div 4), B64Char((b[1] % 4) * 16), 61, 61>>
    ELSE IF Len(b) = 2
    THEN <<B64Char(b[1] \div 4),
           B64Char((b[1] % 4) * 16 + (b[2] \div 16)),
           B64Char((b[2] % 16) * 4), 61>>
    ELSE <<B64Char(b[1] \div 4),
           B64Char((b[1] % 4) * 16 + (b[2] \div 16)),
           B64Char((b[2] % 16) * 4 + (b[3] \div 64)),
           B64Char(b[3] % 64)>> \o b64encode(Drop(b, 3))

\* binascii_find_valid(s, 1) from position i: the valid character after the
\* one at i, -1 when there is none
RECURSIVE B64NextValid(_, _)
B64NextValid(s, i) ==
    IF i > Len(s) THEN -1
    ELSE IF s[i] <= 127 /\ (B64Value(s[i]) >= 0 \/ s[i] = 61) THEN s[i]
    ELSE B64NextValid(s, i + 1)

\* the decoding loop from position i: [leftbits, out]
RECURSIVE B64Scan(_, _, _, _, _, _)
B64Scan(s, i, quad_pos, leftbits, leftchar, out) ==
    IF i > Len(s) THEN [leftbits |-> leftbits, out |-> out]
    ELSE IF s[i] > 127 \/ s[i] \in {13, 10, 32}
    THEN B64Scan(s, i + 1, quad_pos, leftbits, leftchar, out)
    ELSE IF s[i] = 61
    THEN IF quad_pos < 2
            \/ (quad_pos = 2 /\ B64NextValid(s, i + 1) # 61)
         THEN B64Scan(s, i + 1, quad_pos, leftbits, leftchar, out)
         ELSE [leftbits |-> 0, out |-> out]
    ELSE IF B64Value(s[i]) < 0
    THEN B64Scan(s, i + 1, quad_pos, leftbits, leftchar, out)
    ELSE IF leftbits + 6 >= 8
    THEN B64Scan(s, i + 1, (quad_pos + 1) % 4, leftbits - 2,
                 (leftchar * 64 + B64Value(s[i])) % Pow2(leftbits - 2),
                 Append(out, ((leftchar * 64 + B64Value(s[i]))
                              \div Pow2(leftbits - 2)) % 256))
    ELSE B64Scan(s, i + 1, (quad_pos + 1) % 4, leftbits + 6,
                 leftchar * 64 + B64Value(s[i]), out)

\* base64.b64decode(s) of a str: [st, data], st "ok", "ValueError" (a
\* character outside ASCII) or "binascii.Error" (incorrect padding)
b64decode(s) ==
    IF \E i \in 1..Len(s) : s[i] > 127
    THEN [st |-> "ValueError", data |-> <<>>]
    ELSE IF B64Scan(s, 1, 0, 0, 0, <<>>).leftbits # 0
    THEN [st |-> "binascii.Error", data |-> <<>>]
    ELSE [st |-> "ok", data |-> B64Scan(s, 1, 0, 0, 0, <<>>).out]

\* str.encode(): UTF-8 of text given by its code points below 256
RECURSIVE StrEncode(_)
StrEncode(s) ==
    IF s = <<>> THEN <<>>
    ELSE (IF s[1] < 128 THEN <<s[1]>>
          ELSE <<192 + (s[1] \div 64), 128 + (s[1] % 64)>>)
         \o StrEncode(Tail(s))

\* b'258EAFA5-E914-47DA-95CA-C5AB0DC85B11'
WS_KEY ==
    <<50, 53, 56, 69, 65, 70, 65, 53, 45, 69, 57, 49, 52, 45, 52, 55, 68,
      65, 45, 57, 53, 67, 65, 45, 67, 53, 65, 66, 48, 68, 67, 56, 53, 66,
      49, 49>>

\* 'websocket'
T_websocket ==
    <<119, 101, 98, 115, 111, 99, 107, 101, 116>>

\* 'upgrade'
T_upgrade ==
    <<117, 112, 103, 114, 97, 100, 101>>

\* '13'
T_13 ==
    <<49, 51>>

\* '8'
T_8 ==
    <<56>>

\* '400 Bad Request\r\n'
T_400 ==
    <<52, 48, 48, 32, 66, 97, 100, 32, 82, 101, 113, 117, 101, 115, 116,
      13, 10>>

\* '101 Switching Protocols\r\n'
T_101 ==
    <<49, 48, 49, 32, 83, 119, 105, 116, 99, 104, 105, 110, 103, 32, 80,
      114, 111, 116, 111, 99, 111, 108, 115, 13, 10>>

\* 'Connection: close\r\n'
H_ConnectionClose ==
    <<67, 111, 110, 110, 101, 99, 116, 105, 111, 110, 58, 32, 99, 108, 111,
      115, 101, 13, 10>>

\* 'Content-Length: 0\r\n'
H_ContentLength0 ==
    <<67, 111, 110, 116, 101, 110, 116, 45, 76, 101, 110, 103, 116, 104,
      58, 32, 48, 13, 10>>

\* 'Upgrade: websocket\r\n'
H_UpgradeWebsocket ==
    <<85, 112, 103, 114, 97, 100, 101, 58, 32, 119, 101, 98, 115, 111, 99,
      107, 101, 116, 13, 10>>

\* 'Connection: Upgrade\r\n'
H_ConnectionUpgrade ==
    <<67, 111, 110, 110, 101, 99, 116, 105, 111, 110, 58, 32, 85, 112, 103,
      114, 97, 100, 101, 13, 10>>

\* 'Transfer-Encoding: chunked\r\n'
H_TEChunked ==
    <<84, 114, 97, 110, 115, 102, 101, 114, 45, 69, 110, 99, 111, 100, 105,
      110, 103, 58, 32, 99, 104, 117, 110, 107, 101, 100, 13, 10>>

\* 'Sec-WebSocket-Accept: '
H_AcceptPrefix ==
    <<83, 101, 99, 45, 87, 101, 98, 83, 111, 99, 107, 101, 116, 45, 65, 99,
      99, 101, 112, 116, 58, 32>>

\* 'HTTP/1.1 '
T_HTTP11 ==
    <<72, 84, 84, 80, 47, 49, 46, 49, 32>>

\* 'WebSocket'
V_WebSocket ==
    <<87, 101, 98, 83, 111, 99, 107, 101, 116>>

\* 'Upgrade'
V_Upgrade ==
    <<85, 112, 103, 114, 97, 100, 101>>

\* 'keep-alive, Upgrade'
V_KeepAliveUpgrade ==
    <<107, 101, 101, 112, 45, 97, 108, 105, 118, 101, 44, 32, 85, 112, 103,
      114, 97, 100, 101>>

\* 'h2c'
V_h2c ==
    <<104, 50, 99>>

\* 'close'
V_close ==
    <<99, 108, 111, 115, 101>>

\* '7'
V_7 ==
    <<55>>

\* 'dGhlIHNhbXBsZSBub25jZQ=='
K_Sample ==
    <<100, 71, 104, 108, 73, 72, 78, 104, 98, 88, 66, 115, 90, 83, 66, 117,
      98, 50, 53, 106, 90, 81, 61, 61>>

\* 'AAAAAAAAAAAAAAAAAAAAAA=='
K_Zero ==
    <<65, 65, 65, 65, 65, 65, 65, 65, 65, 65, 65, 65, 65, 65, 65, 65, 65,
      65, 65, 65, 65, 65, 61, 61>>

\* 'AAAA'
K_Short ==
    <<65, 65, 65, 65>>

\* 'abc'
K_BadPadding ==
    <<97, 98, 99>>

\* 'dGhl IHNhbXBsZSBub25jZQ=='
K_Spaced ==
    <<100, 71, 104, 108, 32, 73, 72, 78, 104, 98, 88, 66, 115, 90, 83, 66,
      117, 98, 50, 53, 106, 90, 81, 61, 61>>

\* 'dGhlIHNhbXBsZSBub25jZQ=A='
K_Long ==
    <<100, 71, 104, 108, 73, 72, 78, 104, 98, 88, 66, 115, 90, 83, 66, 117,
      98, 50, 53, 106, 90, 81, 61, 65, 61>>

\* 's3pPLMBiTxaQ9kYGzzhZRbK+xOo='
A_Sample ==
    <<115, 51, 112, 80, 76, 77, 66, 105, 84, 120, 97, 81, 57, 107, 89, 71,
      122, 122, 104, 90, 82, 98, 75, 43, 120, 79, 111, 61>>

(***************************************************************************)
(* serve(environ, wstream, rstream).  environ maps a header name to <<>>   *)
(* (absent) or <<value>>.                                                  *)
(***************************************************************************)
EnvNames == {"UPGRADE", "CONNECTION", "SEC-WEBSOCKET-VERSION",
             "SEC-WEBSOCKET-KEY"}

\* environ.get(name, default)
EnvGet(env, name, default) ==
    IF env[name] = <<>> THEN default ELSE env[name][1]

Returned(status, headers) ==
    [kind |-> "returned", status |-> status, headers |-> headers, err |-> ""]

ServeRaised(e) ==
    [kind |-> "raised", status |-> <<>>, headers |-> <<>>, err |-> e]

BAD_REQUEST == Returned(T_400, <<H_ConnectionClose, H_ContentLength0>>)

\* base64.b64encode(hashlib.sha1(key + WS_KEY).digest())
AcceptValue(key) == b64encode(sha1(key \o WS_KEY))

\* the 101 response for a key that passed the checks
Switching(key) ==
    Returned(T_101,
             <<H_UpgradeWebsocket, H_ConnectionUpgrade, H_TEChunked,
               H_AcceptPrefix \o AcceptValue(StrEncode(key)) \o CRLF>>)

\* the key check of serve() on the decoded key
ServeKey(key, dec) ==
    IF dec.st # "ok" THEN ServeRaised(dec.st)
    ELSE IF Len(dec.data) # 16 THEN BAD_REQUEST
    ELSE Switching(key)

\* version not in ['13', '8']
VersionSupported(version) == version \in {T_13, T_8}

serve(env) ==
    IF ~Contains(Lower(EnvGet(env, "UPGRADE", <<>>)), T_websocket)
    THEN BAD_REQUEST
    ELSE IF ~Contains(Lower(EnvGet(env, "CONNECTION", <<>>)), T_upgrade)
    THEN BAD_REQUEST
    ELSE IF EnvGet(env, "SEC-WEBSOCKET-VERSION", <<>>) = <<>>
            \/ ~VersionSupported(EnvGet(env, "SEC-WEBSOCKET-VERSION", <<>>))
    THEN BAD_REQUEST
    ELSE IF EnvGet(env, "SEC-WEBSOCKET-KEY", <<>>) = <<>> THEN BAD_REQUEST
    ELSE ServeKey(EnvGet(env, "SEC-WEBSOCKET-KEY", <<>>),
                  b64decode(EnvGet(env, "SEC-WEBSOCKET-KEY", <<>>)))

(***************************************************************************)
(* The client side: the status line and headers of the response, and the   *)
(* checks of connect().                                                    *)
(***************************************************************************)
IsDigit(c) == c >= 48 /\ c <= 57

\* the text up to the first whitespace character
RECURSIVE FirstToken(_)
FirstToken(s) ==
    IF s = <<>> \/ IsSpace(Head(s)) THEN <<>>
    ELSE <<Head(s)>> \o FirstToken(Tail(s))

\* line.split(None, 2) of a stripped line: at most three parts
SplitStatus(line) ==
    LET p1 == FirstToken(line)
        r1 == LStrip(Drop(line, Len(p1)))
        p2 == FirstToken(r1)
        r2 == LStrip(Drop(r1, Len(p2)))
    IN IF r1 = <<>> THEN <<p1>>
       ELSE IF r2 = <<>> THEN <<p1, p2>>
       ELSE <<p1, p2, r2>>

\* the length of the run of digits of s from position i on
RECURSIVE DigitRun(_, _)
DigitRun(s, i) ==
    IF i > Len(s) \/ ~IsDigit(s[i]) THEN 0 ELSE 1 + DigitRun(s, i + 1)

\* VERSRE.match(version), "HTTP/(\d+).(\d+)": <<>> or <<(major, minor)>>
VersionMatch(version) ==
    LET n == DigitRun(version, 6)
        ks == {k \in 1..n : DigitRun(version, 6 + k + 1) > 0}
        k == CHOOSE x \in ks : \A y \in ks : y <= x
    IN IF ~StartsWith(version, <<72, 84, 84, 80, 47>>) \/ ks = {}
       THEN <<>>
       ELSE <<<<DecDigits(SubSeq(version, 6, 5 + k), 0),
                DecDigits(SubSeq(version, 6 + k + 1,
                                 6 + k + DigitRun(version, 6 + k + 1)), 0)>>>>

\* read_response_status on the line read: [st, version, status, reason],
\* arg the argument of BadStatusLine
read_response_status(raw) ==
    LET line == Strip(raw)
        parts == SplitStatus(line)
        bad == [st |-> "BadStatusLine", version |-> <<0, 0>>, status |-> 0,
                reason |-> <<>>, arg |-> line]
    IN IF line = <<>> \/ Len(parts) < 2 THEN bad
       ELSE IF VersionMatch(parts[1]) = <<>> THEN bad
       ELSE IF ~IntBase10(parts[2]).ok THEN bad
       ELSE IF IntBase10(parts[2]).val < 100 \/ IntBase10(parts[2]).val > 999
       THEN bad
       ELSE [st |-> "ok", version |-> VersionMatch(parts[1])[1],
             status |-> IntBase10(parts[2]).val,
             reason |-> IF Len(parts) = 3 THEN parts[3] ELSE <<>>,
             arg |-> <<>>]

\* the bytes the server writes for what serve() returned
ServerWrite(r) == T_HTTP11 \o r.status \o Flatten(r.headers) \o CRLF

\* the response object connect() receives: the status of the status line
\* and the headers read after it
ParseResponse(wire) ==
    LET l == ReadLine(wire, TRUE)
        s == read_response_status(l.data)
        h == read_headers(l.rest, TRUE)
    IN IF s.st # "ok" THEN [st |-> s.st, status |-> 0, headers |-> <<>>]
       ELSE IF h.st # "ok" THEN [st |-> h.st, status |-> 0, headers |-> <<>>]
       ELSE [st |-> "ok", status |-> s.status, headers |-> h.headers]

\* headers.get(name, ''): the value of the first header of that name,
\* names compared without regard to case
RECURSIVE HeaderGet(_, _)
HeaderGet(headers, name) ==
    IF headers = <<>> THEN <<>>
    ELSE IF Lower(Head(headers)[1]) = Lower(name) THEN Head(headers)[2]
    ELSE HeaderGet(Tail(headers), name)

T_sec_websocket_accept == <<115, 101, 99, 45, 119, 101, 98, 115, 111, 99, 107, 101, 116, 45, 97, 99, 99, 101, 112, 116>>
T_connection == <<99, 111, 110, 110, 101, 99, 116, 105, 111, 110>>

\* a connect() that does not look at the accept value
AcceptAny(accept, key) == TRUE

\* key == match
AcceptMatches(accept, key) == StrEncode(accept) = AcceptValue(key)

\* connect() from 'response = yield from fut' on: "ok" or the ValueError
connect(resp, key) ==
    IF resp.status # 101 THEN "Handshake error: Invalid response status"
    ELSE IF Lower(HeaderGet(resp.headers, T_upgrade)) # T_websocket
    THEN "Handshake error - Invalid upgrade header"
    ELSE IF Lower(HeaderGet(resp.headers, T_connection)) # T_upgrade
    THEN "Handshake error - Invalid connection header"
    ELSE IF ~AcceptMatches(HeaderGet(resp.headers, T_sec_websocket_accept),
                           key)
    THEN "Handshake error - Invalid challenge response"
    ELSE "ok"

(***************************************************************************)
(* SpecHandshake: a request reaches serve(); the client that called        *)
(* connect() with sec_key reads the answer and checks it.                  *)
(***************************************************************************)
\* '200 OK\r\n'
T_200 ==
    <<50, 48, 48, 32, 79, 75, 13, 10>>

\* 'Upgrade: h2c\r\n'
H_UpgradeH2c ==
    <<85, 112, 103, 114, 97, 100, 101, 58, 32, 104, 50, 99, 13, 10>>

\* 'UPGRADE: WebSocket\r\n'
H_UpgradeMixed ==
    <<85, 80, 71, 82, 65, 68, 69, 58, 32, 87, 101, 98, 83, 111, 99, 107,
      101, 116, 13, 10>>

\* 'Connection: keep-alive, Upgrade\r\n'
H_ConnectionList ==
    <<67, 111, 110, 110, 101, 99, 116, 105, 111, 110, 58, 32, 107, 101,
      101, 112, 45, 97, 108, 105, 118, 101, 44, 32, 85, 112, 103, 114, 97,
      100, 101, 13, 10>>

\* the accept value of K_Zero: \'ICX+Yqv66kxgM0FcWaLWlFLwTAI=\'
A_Zero ==
    <<73, 67, 88, 43, 89, 113, 118, 54, 54, 107, 120, 103, 77, 48, 70, 99,
      87, 97, 76, 87, 108, 70, 76, 119, 84, 65, 73, 61>>

UpgradeValues == {<<>>, <<T_websocket>>, <<V_WebSocket>>, <<V_h2c>>}
ConnectionValues ==
    {<<>>, <<V_Upgrade>>, <<V_KeepAliveUpgrade>>, <<V_close>>}
VersionValues == {<<>>, <<T_13>>, <<T_8>>, <<V_7>>, <<<<>>>>}
KeyValues ==
    {<<>>, <<<<>>>>, <<K_Sample>>, <<K_Zero>>, <<K_Short>>, <<K_BadPadding>>,
     <<K_Spaced>>, <<K_Long>>}

MakeEnviron(u, c, v, k) ==
    [n \in EnvNames |->
        IF n = "UPGRADE" THEN u
        ELSE IF n = "CONNECTION" THEN c
        ELSE IF n = "SEC-WEBSOCKET-VERSION" THEN v
        ELSE k]

\* the headers connect() sends with its key
ClientRequest(key) ==
    MakeEnviron(<<V_WebSocket>>, <<V_Upgrade>>, <<T_13>>, <<key>>)

\* base64.b64encode(os.urandom(16)) for two draws
ClientKeys == {K_Sample, K_Zero}

InitHandshake ==
    /\ hpc = "init"
    /\ sec_key \in ClientKeys
    /\ \E u \in UpgradeValues, c \in ConnectionValues, v \in VersionValues,
          k \in KeyValues : environ = MakeEnviron(u, c, v, k)
    /\ served = None
    /\ response = None
    /\ connected = None
    /\ ChunkedOff /\ MsgOff /\ WsOff /\ X2Off

\* the server calls serve(environ, ...)
Serve ==
    /\ hpc = "init"
    /\ hpc' = "served"
    /\ served' = serve(environ)
    /\ UNCHANGED <<environ, sec_key, response, connected, cvars, mvars,
                   wvars, x2vars>>

\* what a peer that is not this server may answer instead
Answers == {"served", "status200", "noupgrade", "h2c", "mixedcase",
            "connclose", "connlist", "noaccept", "accept_sample", "nothing"}

Answered(r, how) ==
    IF how = "status200" THEN [r EXCEPT !.status = T_200]
    ELSE IF how = "noupgrade" THEN [r EXCEPT !.headers = Tail(@)]
    ELSE IF how = "h2c" THEN [r EXCEPT !.headers[1] = H_UpgradeH2c]
    ELSE IF how = "mixedcase" THEN [r EXCEPT !.headers[1] = H_UpgradeMixed]
    ELSE IF how = "connclose" THEN [r EXCEPT !.headers[2] = H_ConnectionClose]
    ELSE IF how = "connlist" THEN [r EXCEPT !.headers[2] = H_ConnectionList]
    ELSE IF how = "noaccept" THEN [r EXCEPT !.headers = Take(@, 3)]
    ELSE IF how = "accept_sample"
    THEN [r EXCEPT !.headers[4] = H_AcceptPrefix \o A_Sample \o CRLF]
    ELSE r

\* the response reaches the client: the server writes what serve() returned
\* (nothing when serve() raised), or a peer answers differently
Answer ==
    /\ hpc = "served"
    /\ hpc' = "answered"
    /\ \E how \in Answers :
          /\ how = "served" => served.kind = "returned"
          /\ how = "nothing" => served.kind = "raised"
          /\ how \notin {"served", "nothing"} =>
                /\ served.kind = "returned" /\ served.status = T_101
                /\ environ = ClientRequest(sec_key)
          /\ \E p \in {ParseResponse(IF how = "nothing" THEN <<>>
                                     ELSE ServerWrite(Answered(served, how)))} :
                response' = [how |-> how, st |-> p.st, status |-> p.status,
                             headers |-> p.headers]
    /\ UNCHANGED <<environ, sec_key, served, connected, cvars, mvars, wvars,
                   x2vars>>

\* connect() resumes with the response
Connect ==
    /\ hpc = "answered"
    /\ hpc' = "checked"
    /\ connected' = IF response.st # "ok" THEN response.st
                    ELSE connect(response, sec_key)
    /\ UNCHANGED <<environ, sec_key, served, response, cvars, mvars, wvars,
                   x2vars>>

NextHandshake == Serve \/ Answer \/ Connect

SpecHandshake == InitHandshake /\ [][NextHandshake]_vars

(***************************************************************************)
(* Properties of the handshake.                                            *)
(***************************************************************************)
\* the request's values by what they are: Upgrade holds 'websocket',
\* Connection holds 'upgrade', the version is '8' or '13', and the key is
\* base64 of 16 bytes ('the sample nonce', 16 zero bytes, the former with a
\* blank inside)
UpgradeAsksWebsocket == environ["UPGRADE"] \in {<<T_websocket>>, <<V_WebSocket>>}
ConnectionAsksUpgrade ==
    environ["CONNECTION"] \in {<<V_Upgrade>>, <<V_KeepAliveUpgrade>>}
VersionIs8Or13 == environ["SEC-WEBSOCKET-VERSION"] \in {<<T_13>>, <<T_8>>}
KeyIs16Bytes ==
    environ["SEC-WEBSOCKET-KEY"] \in {<<K_Sample>>, <<K_Zero>>, <<K_Spaced>>}

\* C11: serve() returns the 101 response if and only if the four conditions
\* hold, and in every other case returns 400 Bad Request with
\* Connection: close and Content-Length: 0.
C11_ServeDecision ==
    hpc # "init" =>
        IF UpgradeAsksWebsocket /\ ConnectionAsksUpgrade /\ VersionIs8Or13
           /\ KeyIs16Bytes
        THEN served.kind = "returned" /\ served.status = T_101
        ELSE served = Returned(T_400, <<H_ConnectionClose, H_ContentLength0>>)

HandshakeErrors ==
    {"Handshake error: Invalid response status",
     "Handshake error - Invalid upgrade header",
     "Handshake error - Invalid connection header",
     "Handshake error - Invalid challenge response"}

\* C12: the accept value of serve()'s 101 response is base64(SHA1(K + GUID))
\* (RFC 6455's value for its sample key); connect() accepts the 101 response
\* to its own request, also with header names and the Upgrade value in
\* another case; and connect() fails with a handshake error when the status
\* is not 101, or the upgrade, connection or accept value does not match.
C12_HandshakeAgreement ==
    /\ (hpc # "init" /\ served.kind = "returned" /\ served.status = T_101) =>
          /\ environ["SEC-WEBSOCKET-KEY"] = <<K_Sample>> =>
                served.headers[4] = H_AcceptPrefix \o A_Sample \o CRLF
          /\ environ["SEC-WEBSOCKET-KEY"] = <<K_Zero>> =>
                served.headers[4] = H_AcceptPrefix \o A_Zero \o CRLF
    /\ hpc = "checked" =>
          /\ (response.how \in {"served", "mixedcase"}
              /\ environ = ClientRequest(sec_key)) => connected = "ok"
          /\ (response.how = "served" /\ served.status = T_400) =>
                connected = "Handshake error: Invalid response status"
          /\ response.how = "status200" =>
                connected = "Handshake error: Invalid response status"
          /\ response.how \in {"noupgrade", "h2c"} =>
                connected = "Handshake error - Invalid upgrade header"
          /\ response.how \in {"connclose", "connlist"} =>
                connected = "Handshake error - Invalid connection header"
          /\ (\/ response.how = "noaccept"
              \/ response.how = "accept_sample" /\ sec_key # K_Sample
              \/ /\ response.how = "served" /\ served.status = T_101
                 /\ environ["SEC-WEBSOCKET-KEY"] # <<sec_key>>) =>
                connected = "Handshake error - Invalid challenge response"
          /\ response.how # "nothing" =>
                connected \in HandshakeErrors \cup {"ok"}

\* connect() accepted the server's answer to its own request
C12_Witness ==
    /\ hpc = "checked"
    /\ sec_key = K_Sample
    /\ environ = ClientRequest(sec_key)
    /\ response.how = "served"
    /\ response.status = 101
    /\ connected = "ok"

(***************************************************************************)
(* SpecFrame: one frame, written by _send_frame or sent masked by a peer,  *)
(* and read back by _receive_frame with all its bytes in the buffer.       *)
(***************************************************************************)
MaxSeed == 2

\* a payload of n bytes; seed 0 runs through every byte value
Payload(n, seed) == [i \in 1..n |-> (seed * 101 + i * (2 * seed + 1)) % 256]

\* the lengths around the changes of the length form
DataLens == {0, 1, 125, 126, 127, 65535, 65536}
ControlLens == {0, 1, 2, 125}
MaskedLens == {0, 1, 3, 4, 5, 126}
MaskKeys == {<<0, 0, 0, 0>>, MaskKey, <<1, 2, 3, 4>>, <<255, 255, 255, 255>>}
Seeds == 0..MaxSeed

FrameInput(opcode, message, mask) ==
    [opcode |-> opcode, message |-> message, mask |-> mask]

FrameInputs ==
    {FrameInput(o, Payload(n, sd), <<>>) :
        o \in {OPCODE_TEXT, OPCODE_BINARY}, n \in DataLens, sd \in Seeds}
    \cup {FrameInput(o, Payload(n, sd), <<>>) :
            o \in {OPCODE_CLOSE, OPCODE_PING, OPCODE_PONG},
            n \in ControlLens, sd \in Seeds}
    \cup {FrameInput(o, Payload(n, sd), k) :
            o \in {OPCODE_TEXT, OPCODE_BINARY},
            n \in MaskedLens, sd \in Seeds, k \in MaskKeys}
    \cup {FrameInput(OPCODE_PING, Payload(n, sd), k) :
            n \in {m \in MaskedLens : m <= 125}, sd \in Seeds,
            k \in MaskKeys}

\* the peer's masking (RFC 6455 5.3): octet i of the payload XOR octet
\* i mod 4 of the key, with a XOR b taken as a + b - 2 (a AND b)
PeerMask(x, key) ==
    [i \in 1..Len(x) |->
        LET k == key[((i - 1) % 4) + 1]
        IN x[i] + k - 2 * Bits2("and", x[i], k, 8)]

\* a final frame with the MASK bit set, as a peer sends it
MaskedFrameBytes(message, opcode, key) ==
    LET n == Len(message)
        header == IF n < 126 THEN <<128 + opcode, 128 + n>>
                  ELSE <<128 + opcode, 128 + 126>> \o PackBE(n, 2)
    IN header \o key \o PeerMask(message, key)

InitFrame ==
    /\ fpc = "init"
    /\ finp \in FrameInputs
    /\ fwire = <<>>
    /\ fout = None
    /\ ChunkedOff /\ MsgOff /\ WsOff /\ HsOff /\ X3Off

\* self._send_frame(message, opcode); the bytes reach the other side
SendFrame ==
    /\ fpc = "init"
    /\ finp.mask = <<>>
    /\ fwire' = FrameBytes(finp.message, finp.opcode)
    /\ fpc' = "sent"
    /\ UNCHANGED <<finp, fout, cvars, mvars, wvars, hvars, x3vars>>

\* a peer sends the message masked
PeerSendMasked ==
    /\ fpc = "init"
    /\ finp.mask # <<>>
    /\ fwire' = MaskedFrameBytes(finp.message, finp.opcode, finp.mask)
    /\ fpc' = "sent"
    /\ UNCHANGED <<finp, fout, cvars, mvars, wvars, hvars, x3vars>>

\* yield from self._receive_frame() on a fresh session
ReceiveFrame ==
    /\ fpc = "sent"
    /\ fout' = _receive_frame("hdr", FreshLocals, fwire, FALSE, 0)
    /\ fpc' = "received"
    /\ UNCHANGED <<finp, fwire, cvars, mvars, wvars, hvars, x3vars>>

NextFrame == SendFrame \/ PeerSendMasked \/ ReceiveFrame

SpecFrame == InitFrame /\ [][NextFrame]_vars

\* C13: the bytes _send_frame writes carry FIN=1 and the opcode, never the
\* mask bit, the length in the 7-bit form below 126, the 16-bit form below
\* 65536 and the 64-bit form above; _receive_frame parses them as FIN=1, the
\* same opcode and the same payload.
C13_FrameRoundTrip ==
    /\ (fpc \in {"sent", "received"} /\ finp.mask = <<>>) =>
          LET n == Len(finp.message)
          IN /\ fwire[1] = 128 + finp.opcode
             /\ fwire[2] < 128
             /\ IF n < 126 THEN fwire[2] = n /\ Len(fwire) = 2 + n
                ELSE IF n < 65536
                THEN /\ fwire[2] = 126
                     /\ 256 * fwire[3] + fwire[4] = n
                     /\ Len(fwire) = 4 + n
                ELSE /\ fwire[2] = 127
                     /\ \A i \in 3..6 : fwire[i] = 0
                     /\ ((fwire[7] * 256 + fwire[8]) * 256 + fwire[9]) * 256
                           + fwire[10] = n
                     /\ Len(fwire) = 10 + n
    /\ (fpc = "received" /\ finp.mask = <<>>) =>
          /\ fout.st = "frame"
          /\ fout.loc.fin = 1
          /\ fout.loc.f_opcode = finp.opcode
          /\ fout.loc.payload = finp.message
          /\ fout.rest = <<>>

\* a binary frame of 126 bytes, the first length in the 16-bit form, came
\* back whole
C13_Witness ==
    /\ fpc = "received"
    /\ finp.mask = <<>>
    /\ finp.opcode = OPCODE_BINARY
    /\ Len(finp.message) = 126
    /\ fwire[2] = 126
    /\ fout.st = "frame"
    /\ fout.loc.payload = finp.message

\* C14: a frame with the MASK bit set that carries x[i] XOR k[i mod 4] is
\* delivered by _receive_frame as x, for every key (all-zero included), and
\* a frame without the MASK bit is delivered as the bytes it carries.
C14_MaskInvolution ==
    fpc = "received" =>
        /\ fout.st = "frame"
        /\ fout.loc.has_mask = (IF finp.mask = <<>> THEN 0 ELSE 1)
        /\ finp.mask # <<>> =>
              /\ fout.loc.mask = finp.mask
              /\ fout.loc.payload = finp.message
        /\ finp.mask = <<>> =>
              fout.loc.payload = Drop(fwire, Len(fwire) - Len(finp.message))

\* a masked frame whose bytes on the wire differ from the payload delivered
C14_Witness ==
    /\ fpc = "received"
    /\ finp.mask = MaskKey
    /\ Len(finp.message) = 5
    /\ Drop(fwire, 6) # finp.message
    /\ fout.st = "frame"
    /\ fout.loc.payload = finp.message

(***************************************************************************)
(* The server dispatcher: ServerHttpProtocol, WSGIServerHttpProtocol and   *)
(* Response.  Bodies are kept by their lengths; what reaches the transport *)
(* is a sequence of entries                                                *)
(*   [kind, status, connection, chunked, n]                                *)
(* with kind "error" (handle_error's response), "headers" (send_headers),  *)
(* "data" (wstream.write), "chunk" (write_chunked), "eof"                  *)
(* (write_chunked_eof) and "close" (transport.close()).                    *)
(***************************************************************************)
Wr(kind, status, connection, chunked, n) ==
    [kind |-> kind, status |-> status, connection |-> connection,
     chunked |-> chunked, n |-> n]

WrClose == Wr("close", "", "", FALSE, 0)

\* handle_error(status, ...): one write_str of status line, headers and html
handle_error(status, out) ==
    Append(out, Wr("error", status, "close", FALSE, 0))

\* Response.__init__(rline, close, wstream)
NewResponse(version, close) ==
    [version |-> version, status |-> None, chunked |-> FALSE,
     closing |-> close, headers_sent |-> FALSE, length |-> <<>>, sent |-> 0,
     upgrade |-> FALSE]

force_close(r) == [r EXCEPT !.closing = TRUE]

\* a should_close that looks at the closing flag alone
should_close_flag(r) == r.closing

should_close(r) ==
    IF r.closing THEN TRUE
    ELSE IF r.length # <<>> \/ r.chunked THEN FALSE
    ELSE TRUE

\* self.status.startswith(('304', '204'))
NoBodyStatus(status) == status \in {"204 No Content", "304 Not Modified"}

\* start_response(status, headers) without exc_info; the headers are kept
\* by the Content-Length they give (<<>>: none).  [r, raised]
start_response(r, status, length) ==
    IF r.status # None THEN [r |-> r, raised |-> TRUE]
    ELSE LET r1 == [r EXCEPT !.status = status, !.length = length]
         IN [r |-> [r1 EXCEPT !.chunked =
                        \/ r1.chunked
                        \/ /\ r1.length = <<>>
                           /\ ~VersionLE(r1.version, <<1, 0>>)
                           /\ ~NoBodyStatus(status)],
             raised |-> FALSE]

\* the status line and headers of get_default_headers
get_default_headers(r) ==
    Wr("headers", r.status,
       IF r.upgrade THEN "upgrade"
       ELSE IF should_close(r) THEN "close" ELSE "keep-alive",
       r.chunked, 0)

\* send_headers / write / close on [r, out]
send_headers(ro) ==
    IF ro.r.headers_sent THEN ro
    ELSE [r |-> [ro.r EXCEPT !.headers_sent = TRUE],
          out |-> Append(ro.out, get_default_headers(ro.r))]

\* a write that does not cut arg to the remaining allowance
Response_write_untruncated(ro, arglen) ==
    LET r == ro.r IN
    IF r.length # <<>> /\ r.sent >= r.length[1] THEN ro
    ELSE IF r.chunked /\ arglen = 0 THEN ro
    ELSE [r |-> [r EXCEPT !.sent = r.sent + arglen],
          out |-> Append(ro.out,
                         Wr(IF r.chunked THEN "chunk" ELSE "data", "", "",
                            FALSE, arglen))]

\* write(arg) once the headers are sent
Response_write_sent(ro, arglen) ==
    LET r == ro.r
        tosend == IF r.length # <<>> /\ r.length[1] - r.sent < arglen
                  THEN r.length[1] - r.sent ELSE arglen
    IN IF r.length # <<>> /\ r.sent >= r.length[1] THEN ro
       ELSE IF r.chunked /\ tosend = 0 THEN ro
       ELSE [r |-> [r EXCEPT !.sent = r.sent + tosend],
             out |-> Append(ro.out,
                            Wr(IF r.chunked THEN "chunk" ELSE "data", "", "",
                               FALSE, tosend))]

Response_write(ro, arglen) == Response_write_sent(send_headers(ro), arglen)

Response_close_sent(ro) ==
    IF ro.r.chunked
    THEN [r |-> ro.r, out |-> Append(ro.out, Wr("eof", "", "", FALSE, 0))]
    ELSE ro

Response_close(ro) == Response_close_sent(send_headers(ro))

(***************************************************************************)
(* The WSGI application, by what it does with the response:                *)
(*   force     it calls response.force_close()                             *)
(*   start     how many times it calls start_response                      *)
(*   status, length   the status and the Content-Length it passes          *)
(*   items     the lengths of the items it yields                          *)
(*   raise_at  -1: never raises; 0: raises in the call (or its future      *)
(*             does); k > 0: its iterator raises in place of item k        *)
(*   future    it returns a tulip.Future                                   *)
(***************************************************************************)
MaxRequests == 2

Requests ==
    [version : {<<1, 0>>, <<1, 1>>}, close : BOOLEAN, host : BOOLEAN]

Apps ==
    [force : BOOLEAN, start : 0..2, status : {"200 OK", "204 No Content"},
     length : {<<>>, <<2>>}, items : {<<>>, <<2>>, <<2, 1>>},
     raise_at : -1..2, future : BOOLEAN]

\* self.wsgi(environ, response.start_response): [r, raised]
AppCall(r, app) ==
    LET r1 == IF app.force THEN force_close(r) ELSE r
        s1 == IF app.start >= 1 THEN start_response(r1, app.status, app.length)
              ELSE [r |-> r1, raised |-> FALSE]
        s2 == IF app.start = 2 /\ ~s1.raised
              THEN start_response(s1.r, app.status, app.length)
              ELSE s1
    IN [r |-> s2.r, raised |-> s2.raised \/ (app.raise_at = 0 /\ ~app.future)]

\* for item in respiter: response.write(item), for the first k items
RECURSIVE WriteItems(_, _, _)
WriteItems(ro, items, k) ==
    IF k = 0 \/ items = <<>> THEN ro
    ELSE WriteItems(Response_write(ro, Head(items)), Tail(items), k - 1)

\* the loop over respiter and response.close(): [ro, raised]
Iterate(ro, app) ==
    IF app.raise_at = 0 THEN [ro |-> ro, raised |-> TRUE]
    ELSE IF app.raise_at > 0
    THEN [ro |-> WriteItems(ro, app.items, app.raise_at - 1), raised |-> TRUE]
    ELSE [ro |-> Response_close(WriteItems(ro, app.items, Len(app.items))),
          raised |-> FALSE]

\* handle_one_request's finally: whether self.close() is called
\* (response: <<>> for None, <<r>> for a Response)
OneRequestCloses(response_) ==
    IF response_ # <<>> THEN should_close(response_[1]) ELSE TRUE

\* a finally that leaves the transport open
HandleFinallyOpen(cl, out) == out

\* handle's finally: if self.closing: self.transport.close()
HandleFinally(cl, out) == IF cl THEN Append(out, WrClose) ELSE out

\* a CancelledError handled like any other exception
OnCancelledAsError(out) == handle_error("500", out)

\* except tulip.CancelledError: logging.debug(...)
OnCancelled(out) == out

TransportClosed == \E i \in 1..Len(swrites) : swrites[i].kind = "close"

Ended(how, invoked) == [ended |-> how, invoked |-> invoked]

IdleTask == [pos |-> "none", cancel |-> FALSE]

InitServer ==
    /\ handler = None
    /\ task = IdleTask
    /\ closing = FALSE
    /\ request_count = 0
    /\ sreq = None
    /\ sresp = <<>>
    /\ swrites = <<>>
    /\ lost = FALSE
    /\ slog = Ended("", FALSE)
    /\ ChunkedOff /\ MsgOff /\ WsOff /\ HsOff /\ FrOff /\ X4Off

ServerOthers == <<cvars, mvars, wvars, hvars, fvars, x4vars>>

\* a data_received that makes a handler task without looking at self.handler
ServerDataReceivedUnchecked ==
    /\ handler # "off"
    /\ ~lost
    /\ ~TransportClosed
    /\ request_count < MaxRequests
    /\ handler' = "task"
    /\ task' = [pos |-> "created", cancel |-> FALSE]
    /\ sreq' = None
    /\ sresp' = <<>>
    /\ swrites' = <<>>
    /\ slog' = Ended("", FALSE)
    /\ UNCHANGED <<closing, request_count, lost, ServerOthers>>

\* data_received(data): a handler task is created when there is none (the
\* transport delivers no data after connection_lost)
ServerDataReceived ==
    /\ handler = None
    /\ ~lost
    /\ ~TransportClosed
    /\ request_count < MaxRequests
    /\ handler' = "task"
    /\ task' = [pos |-> "created", cancel |-> FALSE]
    /\ sreq' = None
    /\ sresp' = <<>>
    /\ swrites' = <<>>
    /\ slog' = Ended("", FALSE)
    /\ UNCHANGED <<closing, request_count, lost, ServerOthers>>

\* handle() starts and waits for the request line
HandleStart ==
    /\ task.pos = "created"
    /\ ~task.cancel
    /\ request_count' = request_count + 1
    /\ task' = [task EXCEPT !.pos = "read"]
    /\ UNCHANGED <<handler, closing, sreq, sresp, swrites, lost, slog,
                   ServerOthers>>

\* the handler run ends: except Exception (raised), then finally
HandleEnds(out, raised, cl, how, invoked) ==
    /\ swrites' = HandleFinally(cl \/ raised,
                                IF raised THEN handle_error("500", out)
                                ELSE out)
    /\ closing' = (cl \/ raised)
    /\ handler' = None
    /\ task' = IdleTask
    /\ slog' = Ended(IF raised THEN "500" ELSE how, invoked)

\* read_request_line or read_message raises
ReadFails ==
    /\ task.pos = "read"
    /\ ~task.cancel
    /\ swrites' = HandleFinally(TRUE, handle_error("400", swrites))
    /\ closing' = TRUE
    /\ handler' = None
    /\ task' = IdleTask
    /\ slog' = Ended("400", FALSE)
    /\ UNCHANGED <<request_count, sreq, sresp, lost, ServerOthers>>

\* the request line and the headers are read; handle_one_request waits
\* for message.payload
ReadOk ==
    /\ task.pos = "read"
    /\ ~task.cancel
    /\ \E rq \in Requests, app \in Apps : sreq' = [rq |-> rq, app |-> app]
    /\ task' = [task EXCEPT !.pos = "payload"]
    /\ slog' = Ended("", TRUE)
    /\ UNCHANGED <<handler, closing, request_count, sresp, swrites, lost,
                   ServerOthers>>

\* reading the payload raises, before handle_one_request's try
PayloadFails ==
    /\ task.pos = "payload"
    /\ ~task.cancel
    /\ HandleEnds(swrites, TRUE, closing, "500", TRUE)
    /\ UNCHANGED <<request_count, sreq, sresp, lost, ServerOthers>>

\* the rest of handle_one_request from [r, out] after the app returned
\* its iterable
ServeIterable(ro, app) ==
    \E it \in {Iterate(ro, app)} :
        /\ sresp' = <<it.ro.r>>
        /\ HandleEnds(it.ro.out, it.raised,
                      closing \/ OneRequestCloses(<<it.ro.r>>), "returned", TRUE)

\* the payload is read: the environ and the response are made and the
\* application is called
PayloadOk ==
    /\ task.pos = "payload"
    /\ ~task.cancel
    /\ IF ~sreq.rq.host
       THEN \* create_wsgi_environ raises: server is not bound
            /\ HandleEnds(swrites, TRUE, TRUE, "500", TRUE)
            /\ UNCHANGED sresp
       ELSE \E c \in {AppCall(NewResponse(sreq.rq.version, sreq.rq.close),
                              sreq.app)} :
              IF c.raised
              THEN /\ sresp' = <<c.r>>
                   /\ HandleEnds(swrites, TRUE,
                                 closing \/ OneRequestCloses(<<c.r>>), "500", TRUE)
              ELSE IF sreq.app.future
              THEN /\ sresp' = <<c.r>>
                   /\ task' = [task EXCEPT !.pos = "future"]
                   /\ UNCHANGED <<handler, closing, swrites, slog>>
              ELSE ServeIterable([r |-> c.r, out |-> swrites], sreq.app)
    /\ UNCHANGED <<request_count, sreq, lost, ServerOthers>>

\* the future the application returned is done
FutureDone ==
    /\ task.pos = "future"
    /\ ~task.cancel
    /\ ServeIterable([r |-> sresp[1], out |-> swrites], sreq.app)
    /\ UNCHANGED <<request_count, sreq, lost, ServerOthers>>

\* connection_lost(exc)
ConnectionLost ==
    /\ handler # "off"
    /\ ~lost
    /\ lost' = TRUE
    /\ IF handler # None /\ task.pos # "none"
       THEN /\ task' = [task EXCEPT !.cancel = TRUE]
            /\ handler' = None
       ELSE UNCHANGED <<handler, task>>
    /\ UNCHANGED <<closing, request_count, sreq, sresp, swrites, slog,
                   ServerOthers>>

\* the cancelled task gets CancelledError where it waits
CancelDelivered ==
    /\ task.cancel
    /\ task.pos # "none"
    /\ IF task.pos = "created"
       THEN \* the coroutine never ran: no finally
            UNCHANGED <<closing, swrites>>
       ELSE \E cl \in {closing \/ (task.pos = "future"
                                   /\ OneRequestCloses(sresp))} :
              /\ closing' = cl
              /\ swrites' = HandleFinally(cl, OnCancelled(swrites))
    /\ handler' = None
    /\ task' = IdleTask
    /\ slog' = Ended("cancelled", slog.invoked)
    /\ UNCHANGED <<request_count, sreq, sresp, lost, ServerOthers>>

NextServer ==
    \/ ServerDataReceived
    \/ HandleStart
    \/ ReadFails
    \/ ReadOk
    \/ PayloadFails
    \/ PayloadOk
    \/ FutureDone
    \/ ConnectionLost
    \/ CancelDelivered

SpecServer == InitServer /\ [][NextServer]_vars

(***************************************************************************)
(* Properties of the dispatcher.                                           *)
(***************************************************************************)
StatusLines ==
    {i \in 1..Len(swrites) : swrites[i].kind \in {"error", "headers"}}

HeadersWritten == \E i \in 1..Len(swrites) : swrites[i].kind = "headers"

Wrote500 ==
    \E i \in 1..Len(swrites) :
        swrites[i].kind = "error" /\ swrites[i].status = "500"

\* C15: when reading the request line or the headers fails, the handler is
\* not invoked, exactly one 400 response with Connection: close is written,
\* and transport.close() comes after it.
C15_ParseFailure400 ==
    slog.ended = "400" =>
        /\ ~slog.invoked
        /\ sresp = <<>>
        /\ Len(swrites) = 2
        /\ swrites[1].kind = "error"
        /\ swrites[1].status = "400"
        /\ swrites[1].connection = "close"
        /\ swrites[2].kind = "close"
        /\ handler = None

\* the second request on a connection failed to parse
C15_Witness ==
    /\ slog.ended = "400"
    /\ request_count = 2
    /\ TransportClosed

\* C16: when the handler raises, a 500 response is written only if the
\* response headers have not been sent; otherwise no second status line
\* reaches the transport.
C16_No500AfterHeaders ==
    slog.ended = "500" =>
        /\ Wrote500 <=> ~HeadersWritten
        /\ Cardinality(StatusLines) = 1

\* C17: connection_lost with a handler task running cancels the task and
\* clears self.handler, and the cancelled handler writes nothing to the
\* transport afterwards (it may still close it).
C17_CancelOnLoss ==
    [][/\ (~lost /\ lost' /\ handler = "task") =>
              (task'.cancel /\ handler' = None)
       /\ task.cancel =>
              (swrites' = swrites \/ swrites' = Append(swrites, WrClose))
       /\ (task.cancel /\ ~task'.cancel) => slog'.ended = "cancelled"]_vars

\* a handler waiting for the application's future was cancelled
C17_Witness ==
    /\ slog.ended = "cancelled"
    /\ lost
    /\ sresp # <<>>
    /\ task.pos = "none"
    /\ handler = None

\* C18: after handle_one_request returns normally the transport is closed
\* if and only if should_close() holds, that is the request asked for close
\* (message.close or force_close) or the response has neither a
\* Content-Length nor chunked encoding; otherwise the connection stays open
\* and the next data_received starts a new handler.
C18_CloseIffShouldClose ==
    slog.ended = "returned" =>
        /\ TransportClosed <=> should_close(sresp[1])
        /\ should_close(sresp[1]) <=>
              \/ sreq.rq.close
              \/ sreq.app.force
              \/ (sresp[1].length = <<>> /\ ~sresp[1].chunked)
        /\ handler = None
        /\ (~TransportClosed /\ ~lost /\ request_count < MaxRequests) =>
              ENABLED ServerDataReceived

\* the first request left the connection open, the second one closed it
C18_Witness ==
    /\ slog.ended = "returned"
    /\ request_count = 2
    /\ TransportClosed
    /\ should_close(sresp[1])

(***************************************************************************)
(* Properties of read_message's length check.                              *)
(***************************************************************************)
\* the header block by what it holds
BadLengthFields == {L_CLBad, L_CLNeg}
LengthFields == {L_CL5, L_CLBad, L_CLNeg}
ChunkedFields == {L_TEChunked, L_TEGzipChunked}

HasBadLength == \E i \in 1..Len(mwire) : mwire[i] \in BadLengthFields
WellFormed == \A i \in 1..Len(mwire) : mwire[i] # L_NoColon
HasChunked == \E i \in 1..Len(mwire) : mwire[i] \in ChunkedFields

\* the last Content-Length header is a bad one and no Sec-WebSocket-Key1
\* header follows it
LastLengthBad ==
    \E i \in 1..Len(mwire) :
        /\ mwire[i] \in BadLengthFields
        /\ \A j \in (i + 1)..Len(mwire) :
              mwire[j] \notin LengthFields \cup {L_Key1}

\* C19: read_message fails with InvalidLength for every message with a
\* Content-Length header whose value is no non-negative integer, whatever
\* other headers it carries, before any body byte is consumed.
C19_AnyBadLengthFails ==
    (mpc \in {"done", "failed"} /\ WellFormed /\ HasBadLength) =>
        mres.st = "InvalidLength" /\ mres.rest = BodyBytes

\* C19 as amended: it fails so when no Transfer-Encoding header holds
\* 'chunked' and the bad Content-Length header is the last one, with no
\* Sec-WebSocket-Key1 header after it.
C19_LastBadLengthFails ==
    (mpc \in {"done", "failed"} /\ WellFormed /\ ~HasChunked /\ LastLengthBad)
        => (mpc = "failed" /\ mres.st = "InvalidLength"
            /\ mres.rest = BodyBytes /\ mbuf = BodyBytes)

\* a bad Content-Length after a good one made read_message fail, the body
\* still in the buffer
C19_Witness ==
    /\ mpc = "failed"
    /\ mwire = <<L_CL5, L_CLNeg>>
    /\ mres.st = "InvalidLength"
    /\ mbuf = BodyBytes

(***************************************************************************)
(* SpecHeaders: read_headers on header blocks with fields around           *)
(* MAX_HEADERFIELD_SIZE.  A field is kept by its shape                     *)
(*   [first, cont, lf]                                                     *)
(* the length of its first line, the lengths of its continuation lines     *)
(* (terminators included) and whether lines end in a bare LF; the block is *)
(* prefix fields of MAX_HEADERFIELD_SIZE bytes each, then the field.       *)
(***************************************************************************)
MaxPrefix == 4

Fill(n) == [i \in 1..n |-> 97]

LineEnd(lf) == IF lf THEN <<LF>> ELSE CRLF

\* 'x:aaa...\r\n' of n bytes / ' aaa...\r\n' of n bytes
FirstLine(n, lf) ==
    <<120, 58>> \o Fill(n - 2 - Len(LineEnd(lf))) \o LineEnd(lf)
ContLine(n, lf) == <<32>> \o Fill(n - 1 - Len(LineEnd(lf))) \o LineEnd(lf)

Shape(first, cont, lf) == [first |-> first, cont |-> cont, lf |-> lf]

RECURSIVE Sum(_)
Sum(q) == IF q = <<>> THEN 0 ELSE Head(q) + Sum(Tail(q))

FieldLen(sh) == sh.first + Sum(sh.cont)

RECURSIVE ContBytes(_, _)
ContBytes(cont, lf) ==
    IF cont = <<>> THEN <<>>
    ELSE ContLine(Head(cont), lf) \o ContBytes(Tail(cont), lf)

FieldBytes(sh) == FirstLine(sh.first, sh.lf) \o ContBytes(sh.cont, sh.lf)

RECURSIVE Repeat(_, _)
Repeat(b, k) == IF k = 0 THEN <<>> ELSE b \o Repeat(b, k - 1)

\* the fields read_headers is tried on: lengths around the limit, in one
\* line, with a long, a short and two continuation lines
FieldShapes ==
    {Shape(t, <<>>, lf) :
        t \in {7, 8} \cup (MAX_HEADERFIELD_SIZE - 1)..(MAX_HEADERFIELD_SIZE + 2),
        lf \in BOOLEAN}
    \cup {Shape(20, <<t - 20>>, lf) :
            t \in (MAX_HEADERFIELD_SIZE - 1)..(MAX_HEADERFIELD_SIZE + 2),
            lf \in BOOLEAN}
    \cup {Shape(t - 3, <<3>>, lf) :
            t \in (MAX_HEADERFIELD_SIZE - 1)..(MAX_HEADERFIELD_SIZE + 3),
            lf \in BOOLEAN}
    \cup {Shape(4000, <<4000, t - 8000>>, lf) :
            t \in (MAX_HEADERFIELD_SIZE - 1)..(MAX_HEADERFIELD_SIZE + 2),
            lf \in BOOLEAN}

HeaderBlock(inp) ==
    Repeat(FirstLine(MAX_HEADERFIELD_SIZE, FALSE), inp.prefix)
    \o FieldBytes(inp.field) \o CRLF

InitHeaders ==
    /\ hdpc = "init"
    /\ hdinp \in [prefix : 0..MaxPrefix, field : FieldShapes]
    /\ hdres = None
    /\ ChunkedOff /\ MsgOff /\ WsOff /\ HsOff /\ FrOff /\ SrvOff /\ X5Off

\* yield from reader.read_headers() with the whole block in the buffer
ReadHeaders ==
    /\ hdpc = "init"
    /\ \E r \in {read_headers(HeaderBlock(hdinp), FALSE)} :
          hdres' = [st |-> r.st, n |-> Len(r.headers),
                    value_len |-> IF r.headers = <<>> THEN 0
                                  ELSE Len(r.headers[Len(r.headers)][2])]
    /\ hdpc' = "read"
    /\ UNCHANGED <<hdinp, cvars, mvars, wvars, hvars, fvars, svars, x5vars>>

NextHeaders == ReadHeaders

SpecHeaders == InitHeaders /\ [][NextHeaders]_vars

\* the bytes in the block, the field included
BlockSize == hdinp.prefix * MAX_HEADERFIELD_SIZE + FieldLen(hdinp.field)

\* C20: read_headers accepts a field whose total length, continuation
\* lines and terminators included, is at most MAX_HEADERFIELD_SIZE and
\* raises LineTooLong at MAX_HEADERFIELD_SIZE + 1 or more, with or without
\* continuation lines.  (Acceptance is that of the field-size check: the
\* block as a whole stays below MAX_HEADERS, the other limit.)
C20_FieldSizeLimit ==
    hdpc = "read" =>
        /\ FieldLen(hdinp.field) > MAX_HEADERFIELD_SIZE =>
              hdres.st = "LineTooLong"
        /\ (FieldLen(hdinp.field) <= MAX_HEADERFIELD_SIZE
            /\ BlockSize < MAX_HEADERS) =>
              hdres.st = "ok" /\ hdres.n = hdinp.prefix + 1

\* a field of exactly MAX_HEADERFIELD_SIZE bytes, in three lines, was
\* accepted
C20_Witness ==
    /\ hdpc = "read"
    /\ hdinp.field.cont # <<>>
    /\ Len(hdinp.field.cont) = 2
    /\ FieldLen(hdinp.field) = MAX_HEADERFIELD_SIZE
    /\ hdres.st = "ok"
    /\ hdres.n = hdinp.prefix + 1

\* the sizes of the fields of the block, in order
FieldSizes ==
    [i \in 1..(hdinp.prefix + 1) |->
        IF i <= hdinp.prefix THEN MAX_HEADERFIELD_SIZE
        ELSE FieldLen(hdinp.field)]

\* every field of the block passes the field-size check
FieldsFit == FieldLen(hdinp.field) <= MAX_HEADERFIELD_SIZE

\* the number of fields before the one with which the accumulated size
\* reaches MAX_HEADERS
FieldsBeforeLimit ==
    LET reached == {k \in 1..Len(FieldSizes) :
                        Sum(SubSeq(FieldSizes, 1, k)) >= MAX_HEADERS}
    IN (CHOOSE k \in reached : \A j \in reached : k <= j) - 1

\* C21 as stated: read_headers raises LineTooLong once the accumulated size
\* of the fields reaches MAX_HEADERS and returns normally every header
\* block whose fields total at most MAX_HEADERS bytes.
C21_AtMostMaxHeadersAccepted ==
    (hdpc = "read" /\ FieldsFit) =>
        /\ BlockSize > MAX_HEADERS => hdres.st = "LineTooLong"
        /\ BlockSize <= MAX_HEADERS =>
              hdres.st = "ok" /\ hdres.n = hdinp.prefix + 1

\* C21 amended: read_headers raises LineTooLong with the field whose size
\* brings the accumulated size to MAX_HEADERS or more, keeping the fields
\* before it, and returns normally every header block of fields within
\* MAX_HEADERFIELD_SIZE that total less than MAX_HEADERS bytes.
C21_BelowMaxHeadersAccepted ==
    (hdpc = "read" /\ FieldsFit) =>
        /\ BlockSize >= MAX_HEADERS =>
              hdres.st = "LineTooLong" /\ hdres.n = FieldsBeforeLimit
        /\ BlockSize < MAX_HEADERS =>
              hdres.st = "ok" /\ hdres.n = hdinp.prefix + 1

\* a block of exactly MAX_HEADERS bytes, each field within the field
\* limit, was refused with its last field
C21_Witness ==
    /\ hdpc = "read"
    /\ FieldsFit
    /\ BlockSize = MAX_HEADERS
    /\ hdres.st = "LineTooLong"
    /\ hdres.n = hdinp.prefix

(***************************************************************************)
(* SpecParse: read_request_line, read_response_status and read_headers on  *)
(* short texts.  The text on the wire is kept by its parts, so that what   *)
(* a parser returns can be compared with the parts it was built from.      *)
(***************************************************************************)
IsAlpha(c) == (c >= 65 /\ c <= 90) \/ (c >= 97 /\ c <= 122)

\* METHRE.match(method), "([A-Za-z]+)": a match at the start of the text
MethodMatch(method) == method # <<>> /\ IsAlpha(method[1])

\* read_request_line on the line read: [st, method, uri, version], arg the
\* argument of BadStatusLine
read_request_line(raw) ==
    LET line == Strip(raw)
        parts == SplitStatus(line)
        bad(a) == [st |-> "BadStatusLine", method |-> <<>>, uri |-> <<>>,
                   version |-> <<0, 0>>, arg |-> a]
    IN IF Len(parts) # 3 \/ line = <<>> THEN bad(line)
       ELSE IF ~MethodMatch(parts[1]) THEN bad(parts[1])
       ELSE IF VersionMatch(parts[3]) = <<>> THEN bad(parts[3])
       ELSE [st |-> "ok", method |-> Upper(parts[1]),
             uri |-> IF StartsWith(parts[2], <<47, 47>>)
                     THEN Tail(parts[2]) ELSE parts[2],
             version |-> VersionMatch(parts[3])[1], arg |-> <<>>]

\* the version texts tried: [text, ok, val], ok saying whether the text is
\* HTTP/<digits>.<digits>, val the (major, minor) it then stands for
VersionTexts ==
    {\* 'HTTP/1.1'
     [text |-> <<72, 84, 84, 80, 47, 49, 46, 49>>, ok |-> TRUE, val |-> <<1, 1>>],
     \* 'HTTP/1.0'
     [text |-> <<72, 84, 84, 80, 47, 49, 46, 48>>, ok |-> TRUE, val |-> <<1, 0>>],
     \* 'HTTP/10.12'
     [text |-> <<72, 84, 84, 80, 47, 49, 48, 46, 49, 50>>, ok |-> TRUE, val |-> <<10, 12>>],
     \* 'HTTP/1x1'
     [text |-> <<72, 84, 84, 80, 47, 49, 120, 49>>, ok |-> FALSE, val |-> <<0, 0>>],
     \* 'HTT/1'
     [text |-> <<72, 84, 84, 47, 49>>, ok |-> FALSE, val |-> <<0, 0>>],
     \* 'HT/11'
     [text |-> <<72, 84, 47, 49, 49>>, ok |-> FALSE, val |-> <<0, 0>>],
     \* 'http/1.1'
     [text |-> <<104, 116, 116, 112, 47, 49, 46, 49>>, ok |-> FALSE, val |-> <<0, 0>>],
     \* 'HTTP/1.'
     [text |-> <<72, 84, 84, 80, 47, 49, 46>>, ok |-> FALSE, val |-> <<0, 0>>]}

\* the status codes tried: [text, ok, val], ok saying whether the text is an
\* integer, val its value
CodeTexts ==
    {\* '99'
     [text |-> <<57, 57>>, ok |-> TRUE, val |-> 99],
     \* '100'
     [text |-> <<49, 48, 48>>, ok |-> TRUE, val |-> 100],
     \* '200'
     [text |-> <<50, 48, 48>>, ok |-> TRUE, val |-> 200],
     \* '999'
     [text |-> <<57, 57, 57>>, ok |-> TRUE, val |-> 999],
     \* '1000'
     [text |-> <<49, 48, 48, 48>>, ok |-> TRUE, val |-> 1000],
     \* '9999'
     [text |-> <<57, 57, 57, 57>>, ok |-> TRUE, val |-> 9999],
     \* 'ttt'
     [text |-> <<116, 116, 116>>, ok |-> FALSE, val |-> 0],
     \* '20x'
     [text |-> <<50, 48, 120>>, ok |-> FALSE, val |-> 0]}

\* reason phrases, as written after the code
ReasonTexts ==
    {\* ''
     <<>>,
     \* ' test'
     <<32, 116, 101, 115, 116>>,
     \* ' Not Found'
     <<32, 78, 111, 116, 32, 70, 111, 117, 110, 100>>,
     \* ' OK \t'
     <<32, 79, 75, 32, 9>>}

\* the methods tried: [text, ok, val], ok saying whether the text is made
\* of letters only
MethodTexts ==
    {\* 'get'
     [text |-> <<103, 101, 116>>, ok |-> TRUE, val |-> 0],
     \* 'GET'
     [text |-> <<71, 69, 84>>, ok |-> TRUE, val |-> 0],
     \* 'pOsT'
     [text |-> <<112, 79, 115, 84>>, ok |-> TRUE, val |-> 0],
     \* '12%()+=~$'
     [text |-> <<49, 50, 37, 40, 41, 43, 61, 126, 36>>, ok |-> FALSE, val |-> 0],
     \* 'G3T'
     [text |-> <<71, 51, 84>>, ok |-> FALSE, val |-> 0]}

UriTexts ==
    {\* '/path'
     <<47, 112, 97, 116, 104>>,
     \* '//path'
     <<47, 47, 112, 97, 116, 104>>,
     \* '///p'
     <<47, 47, 47, 112>>,
     \* '*'
     <<42>>}

\* whitespace around a line
Margins == {<<>>, <<32>>, <<9, 32>>}

SP == <<32>>

NoPart == [text |-> <<>>, ok |-> FALSE, val |-> 0]
NoVersion == [text |-> <<>>, ok |-> FALSE, val |-> <<0, 0>>]

\* status lines '<version> <code>[ <reason>]' and request lines
\* '<method> <uri> <version>', and lines of fewer parts
StatusInputs ==
    {[kind |-> "status", version |-> v, code |-> c, reason |-> r,
      method |-> NoPart, uri |-> <<>>, margin |-> m,
      line |-> v.text \o SP \o c.text \o r] :
        v \in VersionTexts, c \in CodeTexts, r \in ReasonTexts,
        m \in Margins}
    \cup {[kind |-> "status", version |-> v, code |-> NoPart,
           reason |-> <<>>, method |-> NoPart, uri |-> <<>>, margin |-> m,
           line |-> v.text] : v \in VersionTexts \cup {NoVersion}, m \in Margins}

RequestInputs ==
    {[kind |-> "request", version |-> v, code |-> NoPart, reason |-> <<>>,
      method |-> me, uri |-> u, margin |-> m,
      line |-> me.text \o SP \o SP \o u \o SP \o v.text] :
        v \in VersionTexts, me \in MethodTexts, u \in UriTexts,
        m \in Margins}
    \cup {[kind |-> "request", version |-> NoVersion, code |-> NoPart,
           reason |-> <<>>, method |-> me, uri |-> u, margin |-> m,
           line |-> me.text \o SP \o u] :
            me \in MethodTexts, u \in UriTexts \cup {<<>>}, m \in Margins}

\* the bytes of a start line on the wire
LineWire(inp) == inp.margin \o inp.line \o inp.margin \o CRLF

\* ---- header blocks of short fields ---------------------------------
MaxBlockFields == 2

\* the bytes before the first ':' of a header line
NameTexts ==
    {\* 'ab'
     <<97, 98>>,
     \* 'Ab \t'
     <<65, 98, 32, 9>>,
     \* ' ab'
     <<32, 97, 98>>,
     \* '\tAb '
     <<9, 65, 98, 32>>,
     \* 'a(b'
     <<97, 40, 98>>,
     \* 'a b'
     <<97, 32, 98>>,
     \* 'x-y'
     <<120, 45, 121>>}

\* the bytes after the ':' up to the end of the line
ValueTexts ==
    {\* ' v1'
     <<32, 118, 49>>,
     \* 'w \t'
     <<119, 32, 9>>}

\* the continuation lines of a field, without their line ends
ContTexts ==
    {\* ''
     <<>>,
     \* ' c'
     <<<<32, 99>>>>,
     \* '\td', ' e'
     <<<<9, 100>>, <<32, 101>>>>}

BlockFields == [name : NameTexts, value : ValueTexts, cont : ContTexts]

\* a line that starts with SP or TAB after the first line of a block is a
\* continuation line, so only the first field's name may start with one
LaterFields == {f \in BlockFields : f.name[1] \notin {32, 9}}

RECURSIVE FieldSeqs(_)
FieldSeqs(n) ==
    IF n = 0 THEN {<<>>}
    ELSE LET shorter == FieldSeqs(n - 1)
         IN shorter
            \cup {Append(b, f) :
                    b \in {x \in shorter : Len(x) = n - 1},
                    f \in IF n = 1 THEN BlockFields ELSE LaterFields}

\* how the block ends: with the line '\r\n', with the line '\n', or with
\* the end of the stream
BlockEnds == {"crlf", "lf", "eof"}

HeaderInputs ==
    [kind : {"headers"}, fields : FieldSeqs(MaxBlockFields), lf : BOOLEAN,
     end : BlockEnds]

RECURSIVE ContWire(_, _)
ContWire(cont, lf) ==
    IF cont = <<>> THEN <<>>
    ELSE Head(cont) \o LineEnd(lf) \o ContWire(Tail(cont), lf)

FieldWire(f, lf) ==
    f.name \o <<58>> \o f.value \o LineEnd(lf) \o ContWire(f.cont, lf)

RECURSIVE FieldsWire(_, _)
FieldsWire(fields, lf) ==
    IF fields = <<>> THEN <<>>
    ELSE FieldWire(Head(fields), lf) \o FieldsWire(Tail(fields), lf)

BlockWire(inp) ==
    FieldsWire(inp.fields, inp.lf)
    \o (CASE inp.end = "crlf" -> CRLF
          [] inp.end = "lf" -> <<LF>>
          [] inp.end = "eof" -> <<>>)

ParseInputs == StatusInputs \cup RequestInputs \cup HeaderInputs

InitParse ==
    /\ ppc = "init"
    /\ pinp \in ParseInputs
    /\ pbuf = <<>>
    /\ peof = FALSE
    /\ pres = None
    /\ ChunkedOff /\ MsgOff /\ WsOff /\ HsOff /\ FrOff /\ SrvOff /\ HdOff
    /\ X6Off

ParseOthers == <<cvars, mvars, wvars, hvars, fvars, svars, kvars, x6vars>>

\* HttpProtocol.data_received: the text arrives
ParseFeed ==
    /\ ppc = "init"
    /\ pbuf' = IF pinp.kind = "headers" THEN BlockWire(pinp)
               ELSE LineWire(pinp)
    /\ ppc' = "fed"
    /\ UNCHANGED <<pinp, peof, pres, ParseOthers>>

\* HttpProtocol.eof_received: the peer closed after the text
ParseFeedEof ==
    /\ ppc = "fed"
    /\ ~peof
    /\ peof' = TRUE
    /\ UNCHANGED <<ppc, pinp, pbuf, pres, ParseOthers>>

\* yield from reader.read_request_line()
ReadRequestLine ==
    /\ ppc = "fed"
    /\ pinp.kind = "request"
    /\ \E l \in {ReadLine(pbuf, peof)} :
          /\ l.st = "ok"
          /\ pres' = read_request_line(l.data)
          /\ pbuf' = l.rest
    /\ ppc' = "read"
    /\ UNCHANGED <<pinp, peof, ParseOthers>>

\* yield from reader.read_response_status()
ReadResponseStatus ==
    /\ ppc = "fed"
    /\ pinp.kind = "status"
    /\ \E l \in {ReadLine(pbuf, peof)} :
          /\ l.st = "ok"
          /\ pres' = read_response_status(l.data)
          /\ pbuf' = l.rest
    /\ ppc' = "read"
    /\ UNCHANGED <<pinp, peof, ParseOthers>>

\* yield from reader.read_headers(), once it can run to its end
ReadHeaderBlock ==
    /\ ppc = "fed"
    /\ pinp.kind = "headers"
    /\ \E r \in {read_headers(pbuf, peof)} :
          /\ r.st # "wait"
          /\ pres' = [st |-> r.st, headers |-> r.headers]
          /\ pbuf' = r.rest
    /\ ppc' = "read"
    /\ UNCHANGED <<pinp, peof, ParseOthers>>

NextParse ==
    \/ ParseFeed
    \/ ParseFeedEof
    \/ ReadRequestLine
    \/ ReadResponseStatus
    \/ ReadHeaderBlock

SpecParse == InitParse /\ [][NextParse]_vars

\* bytes.strip(b' \t')
RECURSIVE LStripBlank(_)
LStripBlank(s) ==
    IF s # <<>> /\ Head(s) \in {32, 9} THEN LStripBlank(Tail(s)) ELSE s

StripBlank(s) == LStripBlank(RStripBlank(s))

\* the name part of a field holds no forbidden byte once the SP and TAB
\* around it are stripped
NameClean(f) ==
    \A i \in 1..Len(StripBlank(f.name)) : ~HdrForbidden(StripBlank(f.name)[i])

\* the (name, value) pair a field stands for: the name stripped and
\* uppercased, the value with its continuation lines as they came
FieldPair(f, lf) ==
    <<Upper(StripBlank(f.name)),
      RStrip(LStrip(f.value \o LineEnd(lf)) \o ContWire(f.cont, lf))>>

ExpectedHeaders == [i \in 1..Len(pinp.fields) |-> FieldPair(pinp.fields[i], pinp.lf)]

HeadersRead == ppc = "read" /\ pinp.kind = "headers"

\* every name of the block is free of SP and TAB at its start, and clean
PlainNames ==
    \A i \in 1..Len(pinp.fields) :
        /\ NameClean(pinp.fields[i])
        /\ pinp.fields[i].name[1] \notin {32, 9}

\* C22: read_headers ends the header block and returns the headers parsed
\* so far, without error, when the next line read is '\r\n', '\n' or empty
\* (the stream reached EOF before a blank line).
C22_BlockEnds ==
    (HeadersRead /\ PlainNames) =>
        /\ pres.st = "ok"
        /\ pres.headers = ExpectedHeaders

\* C23: for every header line whose name part N holds no forbidden byte
\* once the SP and TAB around it are stripped, read_headers yields the name
\* N.strip(SP|TAB).upper(); the order of the headers is kept and a
\* continuation line is appended to the value before it with its leading
\* whitespace.
C23_NameCanonical ==
    (/\ HeadersRead
     /\ pinp.end # "eof"
     /\ \A i \in 1..Len(pinp.fields) : NameClean(pinp.fields[i])) =>
        /\ pres.st = "ok"
        /\ pres.headers = ExpectedHeaders

StatusRead == ppc = "read" /\ pinp.kind = "status"

CodeInRange(c) == c.ok /\ c.val >= 100 /\ c.val <= 999

\* C24: read_response_status accepts a status line if and only if its
\* version is HTTP/<digits>.<digits> and its status code is an integer in
\* 100..999, with or without a reason; a refused line is raised as
\* BadStatusLine with the line as its argument.
C24_StatusAcceptance ==
    StatusRead =>
        /\ pres.st = "ok" <=> (pinp.version.ok /\ CodeInRange(pinp.code))
        /\ pres.st = "ok" =>
              /\ pres.version = pinp.version.val
              /\ pres.status = pinp.code.val
              /\ pres.reason = Strip(pinp.reason)
        /\ pres.st # "ok" =>
              pres.st = "BadStatusLine" /\ pres.arg = Strip(pinp.line)

RequestRead == ppc = "read" /\ pinp.kind = "request"

\* C25: whenever read_request_line refuses a request line it raises
\* BadStatusLine with the request line as its argument; an accepted line
\* yields the method in upper case and, for a URI that starts with '//',
\* the URI without its first '/'.
C25_RequestLine ==
    RequestRead =>
        /\ pres.st # "ok" =>
              pres.st = "BadStatusLine" /\ pres.arg = Strip(pinp.line)
        /\ pres.st = "ok" =>
              /\ pres.method = Upper(pinp.method.text)
              /\ pres.uri = IF StartsWith(pinp.uri, <<47, 47>>)
                            THEN Tail(pinp.uri) ELSE pinp.uri

(***************************************************************************)
(* SpecRequest: HttpRequest(...) and HttpRequest.start().  self.headers is *)
(* an email.message.Message: an ordered list of (name, value) pairs with   *)
(* names compared without regard to case; assignment appends.              *)
(***************************************************************************)
\* 'Content-Encoding'
Q_Content_Encoding ==
    <<67, 111, 110, 116, 101, 110, 116, 45, 69, 110, 99, 111, 100, 105, 110,
     103>>

\* 'content-type'
Q_content_type ==
    <<99, 111, 110, 116, 101, 110, 116, 45, 116, 121, 112, 101>>

\* 'content-length'
Q_content_length ==
    <<99, 111, 110, 116, 101, 110, 116, 45, 108, 101, 110, 103, 116, 104>>

\* 'Transfer-encoding'
Q_Transfer_encoding ==
    <<84, 114, 97, 110, 115, 102, 101, 114, 45, 101, 110, 99, 111, 100, 105,
     110, 103>>

\* 'transfer-encoding'
Q_transfer_encoding ==
    <<116, 114, 97, 110, 115, 102, 101, 114, 45, 101, 110, 99, 111, 100, 105,
     110, 103>>

\* 'Content-Length'
Q_Content_Length ==
    <<67, 111, 110, 116, 101, 110, 116, 45, 76, 101, 110, 103, 116, 104>>

\* 'Transfer-Encoding'
Q_Transfer_Encoding ==
    <<84, 114, 97, 110, 115, 102, 101, 114, 45, 69, 110, 99, 111, 100, 105,
     110, 103>>

\* 'Accept'
Q_Accept ==
    <<65, 99, 99, 101, 112, 116>>

\* 'Accept-Encoding'
Q_Accept_Encoding ==
    <<65, 99, 99, 101, 112, 116, 45, 69, 110, 99, 111, 100, 105, 110, 103>>

\* 'Host'
Q_Host ==
    <<72, 111, 115, 116>>

\* 'host'
Q_host ==
    <<104, 111, 115, 116>>

\* '*/*'
Q_any ==
    <<42, 47, 42>>

\* 'gzip, deflate'
Q_gzip_deflate ==
    <<103, 122, 105, 112, 44, 32, 100, 101, 102, 108, 97, 116, 101>>

\* 'python.org'
Q_python_org ==
    <<112, 121, 116, 104, 111, 110, 46, 111, 114, 103>>

\* 'application/x-www-form-urlencoded'
Q_urlencoded ==
    <<97, 112, 112, 108, 105, 99, 97, 116, 105, 111, 110, 47, 120, 45, 119,
     119, 119, 45, 102, 111, 114, 109, 45, 117, 114, 108, 101, 110, 99, 111,
     100, 101, 100>>

\* 'multipart/form-data; boundary='
Q_multipart ==
    <<109, 117, 108, 116, 105, 112, 97, 114, 116, 47, 102, 111, 114, 109, 45,
     100, 97, 116, 97, 59, 32, 98, 111, 117, 110, 100, 97, 114, 121, 61>>

\* '1000'
Q_1000 ==
    <<49, 48, 48, 48>>

\* 'Deflate'
Q_Deflate ==
    <<68, 101, 102, 108, 97, 116, 101>>

\* 'life'
Q_life ==
    <<108, 105, 102, 101>>

\* '42'
Q_42 ==
    <<52, 50>>

\* 'f'
Q_f ==
    <<102>>

\* 'xy'
Q_xy ==
    <<120, 121>>

\* '0123456789abcdef0123456789abcdef'
Q_boundary ==
    <<48, 49, 50, 51, 52, 53, 54, 55, 56, 57, 97, 98, 99, 100, 101, 102, 48,
     49, 50, 51, 52, 53, 54, 55, 56, 57, 97, 98, 99, 100, 101, 102>>

\* 'Content-Disposition: form-data; name="'
Q_disposition ==
    <<67, 111, 110, 116, 101, 110, 116, 45, 68, 105, 115, 112, 111, 115, 105,
     116, 105, 111, 110, 58, 32, 102, 111, 114, 109, 45, 100, 97, 116, 97,
     59, 32, 110, 97, 109, 101, 61, 34>>

\* '"; filename="'
Q_filename ==
    <<34, 59, 32, 102, 105, 108, 101, 110, 97, 109, 101, 61, 34>>

\* 'Content-Type: '
Q_content_type_ ==
    <<67, 111, 110, 116, 101, 110, 116, 45, 84, 121, 112, 101, 58, 32>>

\* 'application/octet-stream'
Q_octet_stream ==
    <<97, 112, 112, 108, 105, 99, 97, 116, 105, 111, 110, 47, 111, 99, 116,
     101, 116, 45, 115, 116, 114, 101, 97, 109>>

\* Message.__contains__, get, __setitem__, __delitem__
HHas(h, name) == \E i \in 1..Len(h) : Lower(h[i][1]) = Lower(name)

HGet(h, name, default) ==
    LET hits == {i \in 1..Len(h) : Lower(h[i][1]) = Lower(name)}
    IN IF hits = {} THEN default
       ELSE h[CHOOSE i \in hits : \A j \in hits : i <= j][2]

HSet(h, name, value) == Append(h, <<name, value>>)

HDel(h, name) ==
    LET keep(x) == Lower(x[1]) # Lower(name) IN SelectSeq(h, keep)

\* str(n) of a number that is not negative
RECURSIVE FormatDec(_)
FormatDec(n) ==
    IF n < 10 THEN <<48 + n>> ELSE FormatDec(n \div 10) \o <<48 + (n % 10)>>

\* the chunked and compress options: None, True, a number, a text
OptNone == [t |-> "None", n |-> 0, s |-> <<>>]
OptTrue == [t |-> "True", n |-> 1, s |-> <<>>]
OptInt(n) == [t |-> "int", n |-> n, s |-> <<>>]
OptStr(s) == [t |-> "str", n |-> 0, s |-> s]

\* the truth value of an option
Truthy(o) ==
    \/ o.t = "True"
    \/ o.t = "int" /\ o.n # 0
    \/ o.t = "str" /\ o.s # <<>>

GET_METHODS == {"DELETE", "GET", "HEAD", "OPTIONS"}

\* urllib.parse.urlencode of pairs whose texts need no quoting
RECURSIVE urlencode(_)
urlencode(pairs) ==
    IF pairs = <<>> THEN <<>>
    ELSE Head(pairs)[1] \o <<61>> \o Head(pairs)[2]
         \o (IF Len(pairs) > 1 THEN <<38>> ELSE <<>>)
         \o urlencode(Tail(pairs))

\* the fields start() hands to encode_multipart_data: the data pairs, then
\* the files ('f': b'xy' has no name attribute and no known type)
RECURSIVE DataFields(_)
DataFields(data) ==
    IF data = <<>> THEN <<>>
    ELSE <<[file |-> FALSE, field |-> Head(data)[1], fn |-> <<>>,
            ct |-> <<>>, data |-> Head(data)[2]]>>
         \o DataFields(Tail(data))

FileFields ==
    <<[file |-> TRUE, field |-> Q_f, fn |-> Q_f, ct |-> Q_octet_stream,
       data |-> Q_xy]>>

\* encode_multipart_data(fields, boundary): the chunks it yields, for files
\* shorter than chunk_size
RECURSIVE MultipartFields(_, _)
MultipartFields(fields, boundary) ==
    IF fields = <<>> THEN <<>>
    ELSE LET f == Head(fields) IN
         <<<<45, 45>> \o boundary \o CRLF>>
         \o (IF ~f.file
             THEN <<Q_disposition \o f.field \o <<34>> \o CRLF \o CRLF,
                    f.data \o CRLF>>
             ELSE <<Q_disposition \o f.field \o Q_filename \o f.fn
                        \o <<34>> \o CRLF,
                    Q_content_type_ \o f.ct \o CRLF \o CRLF>>
                  \o (IF f.data = <<>> THEN <<>> ELSE <<f.data>>)
                  \o <<CRLF>>)
         \o MultipartFields(Tail(fields), boundary)

encode_multipart_data(fields, boundary) ==
    MultipartFields(fields, boundary)
    \o <<<<45, 45>> \o boundary \o <<45, 45>> \o CRLF>>

\* a call on the tulip Request
Call(op, text, n) == [op |-> op, text |-> text, n |-> n]

\* HttpRequest.__init__ for the URL 'http://python.org/', without cookies
\* or auth: [headers, params], params the _params kept for start() and the
\* data that went to the query
HttpRequest_init(a) ==
    LET to_query == a.data # <<>> /\ a.method \in GET_METHODS
        h0 == a.headers
        h1 == IF HHas(h0, Q_Accept) THEN h0 ELSE HSet(h0, Q_Accept, Q_any)
        h2 == IF HHas(h1, Q_Accept_Encoding) THEN h1
              ELSE HSet(h1, Q_Accept_Encoding, Q_gzip_deflate)
        h3 == IF HHas(h2, Q_host) THEN h2 ELSE HSet(h2, Q_Host, Q_python_org)
    IN [headers |-> h3,
        params |-> [chunked |-> a.chunked, compress |-> a.compress,
                    files |-> a.files,
                    data |-> IF to_query THEN <<>> ELSE a.data,
                    query |-> IF to_query THEN a.data ELSE <<>>]]

\* a compression step that leaves the chunked option as the caller gave it
ContentEncodingNoChunking(st) ==
    LET enc == Lower(HGet(st.headers, Q_Content_Encoding, <<>>))
        mode == IF st.compress.t = "str" THEN st.compress.s ELSE T_deflate
    IN IF enc # <<>>
       THEN [st EXCEPT
               !.calls = Append(@, Call("add_compression_filter", enc, 0))]
       ELSE IF Truthy(st.compress)
       THEN [st EXCEPT
               !.compress = OptStr(mode),
               !.headers = HSet(@, Q_Content_Encoding, mode),
               !.calls = Append(@, Call("add_compression_filter", mode, 0))]
       ELSE st

\* start(), "Content-encoding": the compression filter; a state is
\* [headers, chunked, compress, data, files, body, self_chunked, calls]
ContentEncoding(st) ==
    LET enc == Lower(HGet(st.headers, Q_Content_Encoding, <<>>))
        chunked == IF Truthy(st.chunked) THEN st.chunked ELSE OptTrue
        mode == IF st.compress.t = "str" THEN st.compress.s ELSE T_deflate
    IN IF enc # <<>>
       THEN [st EXCEPT
               !.chunked = chunked,
               !.calls = Append(@, Call("add_compression_filter", enc, 0))]
       ELSE IF Truthy(st.compress)
       THEN [st EXCEPT
               !.chunked = chunked,
               !.compress = OptStr(mode),
               !.headers = HSet(@, Q_Content_Encoding, mode),
               !.calls = Append(@, Call("add_compression_filter", mode, 0))]
       ELSE st

\* start(), "form data" and "files": the body and its headers
FormData(st) ==
    IF st.data # <<>> /\ ~st.files
    THEN LET h1 == IF HHas(st.headers, Q_content_type) THEN st.headers
                   ELSE HSet(st.headers, Q_content_type, Q_urlencoded)
             h2 == IF HHas(h1, Q_content_length) THEN h1
                   ELSE HSet(h1, Q_content_length,
                             FormatDec(Len(urlencode(st.data))))
         IN [st EXCEPT !.body = <<urlencode(st.data)>>, !.headers = h2]
    ELSE IF st.files
    THEN [st EXCEPT
            !.chunked = IF Truthy(@) THEN @ ELSE OptInt(8192),
            !.body = encode_multipart_data(
                         DataFields(st.data) \o FileFields, Q_boundary),
            !.headers = IF HHas(@, Q_content_type) THEN @
                        ELSE HSet(@, Q_content_type,
                                  Q_multipart \o Q_boundary)]
    ELSE st

RECURSIVE BodyLen(_)
BodyLen(b) == IF b = <<>> THEN 0 ELSE Len(Head(b)) + BodyLen(Tail(b))

\* start(), "chunked": Transfer-Encoding or Content-Length
TransferCoding(st) ==
    LET te == Lower(HGet(st.headers, Q_transfer_encoding, <<>>)) IN
    IF Truthy(st.chunked)
    THEN LET h1 == HDel(st.headers, Q_content_length)
             h2 == IF Contains(te, T_chunked) THEN h1
                   ELSE HSet(h1, Q_Transfer_encoding, T_chunked)
             chunk_size == IF st.chunked.t = "int" THEN st.chunked.n
                           ELSE 8196
         IN [st EXCEPT
               !.self_chunked = "True", !.headers = h2,
               !.calls = Append(@, Call("add_chunking_filter", <<>>,
                                        chunk_size))]
    ELSE IF Contains(te, T_chunked)
    THEN [st EXCEPT
            !.self_chunked = "True",
            !.calls = Append(@, Call("add_chunking_filter", <<>>, 8196))]
    ELSE [st EXCEPT
            !.self_chunked = "False",
            !.headers = HSet(@, Q_content_length,
                             FormatDec(BodyLen(st.body)))]

RECURSIVE WriteCalls(_)
WriteCalls(b) ==
    IF b = <<>> THEN <<>>
    ELSE <<Call("write", Head(b), 0)>> \o WriteCalls(Tail(b))

\* start(): the headers and the body go to the tulip Request
SendRequest(st) ==
    [st EXCEPT
       !.calls = @ \o <<Call("add_headers", <<>>, Len(st.headers)),
                        Call("send_headers", <<>>, 0)>>
                   \o WriteCalls(st.body)
                   \o <<Call("write_eof", <<>>, 0)>>]

\* HttpRequest.start(transport) on self.headers and self._params
HttpRequest_start(headers, params) ==
    SendRequest(TransferCoding(FormData(ContentEncoding(
        [headers |-> headers, chunked |-> params.chunked,
         compress |-> params.compress, data |-> params.data,
         files |-> params.files, body |-> <<<<>>>>,
         self_chunked |-> "unset", calls |-> <<>>]))))

\* ---- the requests tried ----------------------------------------------
MaxCallerHeaders == 2

\* headers={...}: the headers the caller supplies
CallerHeaders ==
    {<<Q_Content_Length, Q_1000>>, <<Q_Transfer_Encoding, T_chunked>>,
     <<Q_Transfer_Encoding, T_gzip>>, <<Q_Content_Encoding, Q_Deflate>>,
     <<Q_Content_Encoding, T_gzip>>}

\* data={'life': '42'}
DataPairs == <<<<Q_life, Q_42>>>>

RequestArgs ==
    [method : {"GET", "POST"},
     chunked : {OptNone, OptTrue, OptInt(1024), OptInt(0)},
     compress : {OptNone, OptTrue, OptStr(T_gzip)},
     data : {<<>>, DataPairs},
     files : BOOLEAN,
     headers : UNION {[1..k -> CallerHeaders] : k \in 0..MaxCallerHeaders}]

InitRequest ==
    /\ qpc = "init"
    /\ qargs \in RequestArgs
    /\ qparams = None
    /\ qheaders = <<>>
    /\ qbody = <<<<>>>>
    /\ qchunked = "unset"
    /\ qcalls = <<>>
    /\ ChunkedOff /\ MsgOff /\ WsOff /\ HsOff /\ FrOff /\ SrvOff /\ HdOff
    /\ ParseOff /\ X7Off

RequestOthers ==
    <<cvars, mvars, wvars, hvars, fvars, svars, kvars, pvars, x7vars>>

\* request = HttpRequest(method, url, ...)
MakeRequest ==
    /\ qpc = "init"
    /\ \E r \in {HttpRequest_init(qargs)} :
          /\ qheaders' = r.headers
          /\ qparams' = r.params
    /\ qpc' = "made"
    /\ UNCHANGED <<qargs, qbody, qchunked, qcalls, RequestOthers>>

\* request.start(protocol.wstream)
StartRequest ==
    /\ qpc = "made"
    /\ \E r \in {HttpRequest_start(qheaders, qparams)} :
          /\ qheaders' = r.headers
          /\ qbody' = r.body
          /\ qchunked' = r.self_chunked
          /\ qcalls' = r.calls
    /\ qpc' = "started"
    /\ UNCHANGED <<qargs, qparams, RequestOthers>>

NextRequest == MakeRequest \/ StartRequest

SpecRequest == InitRequest /\ [][NextRequest]_vars

\* ---- what start() sent ------------------------------------------------
ContentLengths ==
    {i \in 1..Len(qheaders) : Lower(qheaders[i][1]) = Q_content_length}

ChunkedCodings ==
    {i \in 1..Len(qheaders) :
        /\ Lower(qheaders[i][1]) = Q_transfer_encoding
        /\ Contains(Lower(qheaders[i][2]), T_chunked)}

\* C26: for every combination of the chunked option, the compress option,
\* body data and caller-supplied headers, the headers start() sends hold
\* exactly one of Content-Length and Transfer-Encoding: chunked: a chunked
\* request carries no Content-Length and a request that is not chunked
\* carries a Content-Length equal to the length of the body.
C26_LengthOrChunked ==
    qpc = "started" =>
        /\ (ContentLengths = {}) # (ChunkedCodings = {})
        /\ qchunked = "True" =>
              ContentLengths = {} /\ ChunkedCodings # {}
        /\ qchunked = "False" =>
              \E i \in ContentLengths :
                  qheaders[i][2] = FormatDec(BodyLen(qbody))

FilterCalls(op) == {i \in 1..Len(qcalls) : qcalls[i].op = op}

\* the request asks for compression: a Content-Encoding header of the
\* caller, or the compress option
CallerEncoding == HGet(qargs.headers, Q_Content_Encoding, <<>>)
AsksCompression == CallerEncoding # <<>> \/ Truthy(qargs.compress)

\* C27: whenever the body is compressed (a Content-Encoding header is set,
\* or the compress option is, which sets the header and stands for deflate
\* unless it names a mode), chunking is enabled as well and the compression
\* filter is installed before the chunking filter.
C27_CompressThenChunk ==
    (qpc = "started" /\ AsksCompression) =>
        /\ qchunked = "True"
        /\ ChunkedCodings # {}
        /\ Cardinality(FilterCalls("add_compression_filter")) = 1
        /\ Cardinality(FilterCalls("add_chunking_filter")) = 1
        /\ \A i \in FilterCalls("add_compression_filter") :
              /\ \A j \in FilterCalls("add_chunking_filter") : i < j
              /\ qcalls[i].text =
                    IF CallerEncoding # <<>> THEN Lower(CallerEncoding)
                    ELSE IF qargs.compress.t = "str" THEN qargs.compress.s
                    ELSE T_deflate
              /\ Lower(HGet(qheaders, Q_Content_Encoding, <<>>))
                    = qcalls[i].text

\* compress=True alone: the deflate filter, then the chunking filter with
\* the default chunk size
C27_Witness ==
    /\ qpc = "started"
    /\ qargs.compress = OptTrue
    /\ qargs.chunked = OptNone
    /\ qargs.headers = <<>>
    /\ qchunked = "True"
    /\ Len(qcalls) >= 2
    /\ qcalls[1] = Call("add_compression_filter", T_deflate, 0)
    /\ qcalls[2] = Call("add_chunking_filter", <<>>, 8196)

(***************************************************************************)
(* SpecApi: api.request() and api.stream().  The caller waits in           *)
(* tasks.wait(fs, timeout) for one task: start(conn, request, response)    *)
(* for request(), the connection for stream().  tasks.wait returns the     *)
(* sets (done, pending) when the task is done or when the timeout expires; *)
(* it leaves a pending task as it is.                                      *)
(***************************************************************************)
MaxRedirectsArg == 2
MaxHops == 2

ApiArgs ==
    [api : {"request", "stream"}, timeout : BOOLEAN,
     allow_redirects : BOOLEAN, max_redirects : 0..MaxRedirectsArg]

InitApi ==
    /\ apc = "init"
    /\ aargs \in ApiArgs
    /\ atask = "none"
    /\ atimer = "none"
    /\ aio = <<>>
    /\ aout = None
    /\ astatus = 0
    /\ aredirects = 0
    /\ ChunkedOff /\ MsgOff /\ WsOff /\ HsOff /\ FrOff /\ SrvOff /\ HdOff
    /\ ParseOff /\ RequestOff /\ X8Off

ApiOthers ==
    <<cvars, mvars, wvars, hvars, fvars, svars, kvars, pvars, qvars, x8vars>>

\* HttpRequest(...), HttpResponse(...), create_connection(...) and
\* tasks.wait([...], timeout): the task starts, the caller suspends
Connecting(done) ==
    /\ atask' = "connecting"
    /\ atimer' = IF aargs.timeout THEN "running" ELSE "none"
    /\ aio' = aio \o done \o <<"create_connection">>
    /\ astatus' = 0
    /\ apc' = "waiting"

\* request(...) or stream(...) is called
ApiCall ==
    /\ apc = "init"
    /\ Connecting(<<>>)
    /\ UNCHANGED <<aargs, aout, aredirects, ApiOthers>>

\* the connection is made: start() resumes after 'yield from conn', calls
\* request.start(protocol.wstream) and suspends in response.start(); for
\* stream() the task is the connection and it is done
ConnectionMade ==
    /\ atask = "connecting"
    /\ IF aargs.api = "request"
       THEN /\ aio' = Append(aio, "request.start")
            /\ atask' = "reading"
       ELSE /\ aio' = Append(aio, "connection_made")
            /\ atask' = "done"
    /\ UNCHANGED <<apc, aargs, atimer, aout, astatus, aredirects, ApiOthers>>

\* the connection cannot be made: the task ends with the exception
ConnectionRefused ==
    /\ atask = "connecting"
    /\ atask' = "failed"
    /\ UNCHANGED <<apc, aargs, atimer, aio, aout, astatus, aredirects,
                   ApiOthers>>

\* the response arrives: response.start(protocol.rstream, True) reads it
\* and start() returns (transport, protocol)
ResponseRead ==
    /\ atask = "reading"
    /\ \E st \in {200, 301, 302} : astatus' = st
    /\ aio' = Append(aio, "response.start")
    /\ atask' = "done"
    /\ UNCHANGED <<apc, aargs, atimer, aout, aredirects, ApiOthers>>

\* the response cannot be read (BadStatusLine, ...): the task ends with
\* the exception
ResponseFails ==
    /\ atask = "reading"
    /\ aio' = Append(aio, "response.start")
    /\ atask' = "failed"
    /\ UNCHANGED <<apc, aargs, atimer, aout, astatus, aredirects, ApiOthers>>

\* the redirect test of request(): follow, give up, or return
Redirected ==
    aargs.api = "request" /\ astatus \in {301, 302} /\ aargs.allow_redirects

RedirectsExhausted ==
    aargs.max_redirects # 0 /\ aredirects + 1 >= aargs.max_redirects

\* tasks.wait returns with the task done: raise its exception, or go on
\* with its result
WaitDone ==
    /\ apc = "waiting"
    /\ atask \in {"done", "failed"}
    /\ IF atask = "failed"
       THEN /\ apc' = "raised"
            /\ aout' = IF aargs.api = "request" THEN "exc" ELSE "ValueError"
            /\ atimer' = "none"
            /\ UNCHANGED <<atask, aio, astatus, aredirects>>
       ELSE IF aargs.api = "stream"
       THEN /\ aio' = Append(aio, "request.start")
            /\ apc' = "returned"
            /\ aout' = "wstream, response"
            /\ atimer' = "none"
            /\ UNCHANGED <<atask, astatus, aredirects>>
       ELSE IF Redirected /\ ~RedirectsExhausted
       THEN /\ aredirects < MaxHops
            /\ aredirects' = aredirects + 1
            /\ Connecting(<<"response.close">>)
            /\ UNCHANGED aout
       ELSE /\ aredirects' = IF Redirected THEN aredirects + 1
                             ELSE aredirects
            /\ apc' = "returned"
            /\ aout' = "response"
            /\ atimer' = "none"
            /\ UNCHANGED <<atask, aio, astatus>>
    /\ UNCHANGED <<aargs, ApiOthers>>

\* tasks.wait returns at the timeout with the task pending:
\* raise futures.TimeoutError
WaitTimeout ==
    /\ apc = "waiting"
    /\ atimer = "running"
    /\ atask \notin {"done", "failed"}
    /\ atimer' = "expired"
    /\ apc' = "raised"
    /\ aout' = "TimeoutError"
    /\ UNCHANGED <<aargs, atask, aio, astatus, aredirects, ApiOthers>>

NextApi ==
    \/ ApiCall
    \/ ConnectionMade
    \/ ConnectionRefused
    \/ ResponseRead
    \/ ResponseFails
    \/ WaitDone
    \/ WaitTimeout

SpecApi == InitApi /\ [][NextApi]_vars

\* C28: when the timeout expires before the task completes, request() and
\* stream() raise the timeout error and the pending task is cancelled: it
\* does not go on, and nothing more is written to or read from the
\* connection once the timeout was raised.
C28_TimeoutCancels ==
    [][aout = "TimeoutError" => (atask' = atask /\ aio' = aio)]_vars

(***************************************************************************)
(* SpecPayload: the body of a message.  It is read by                      *)
(* read_payload(reader, encoding), called with an encoding directly or     *)
(* with the reader and the cmode read_message chose from the headers.      *)
(***************************************************************************)
\* the Content-Encoding values tried; E_none is no header (encoding=None)
E_none == [present |-> FALSE, name |-> None, text |-> <<>>]
\* 'gzip'
E_gzip == [present |-> TRUE, name |-> "gzip", text |-> <<103, 122, 105, 112>>]
\* 'deflate'
E_deflate == [present |-> TRUE, name |-> "deflate", text |-> <<100, 101, 102, 108, 97, 116, 101>>]
\* 'GZip'
E_GZip == [present |-> TRUE, name |-> "GZip", text |-> <<71, 90, 105, 112>>]
\* 'x-gzip'
E_x_gzip == [present |-> TRUE, name |-> "x-gzip", text |-> <<120, 45, 103, 122, 105, 112>>]
\* 'br'
E_br == [present |-> TRUE, name |-> "br", text |-> <<98, 114>>]
\* 'identity'
E_identity == [present |-> TRUE, name |-> "identity", text |-> <<105, 100, 101, 110, 116, 105, 116, 121>>]

Encodings ==
    {E_none, E_gzip, E_deflate, E_GZip, E_x_gzip, E_br, E_identity}

MaxBodyLen == 2

Framings == {"length", "chunked", "eof"}

PayloadInputs ==
    [path : {"read_message", "read_payload"}, enc : Encodings,
     framing : Framings, compression : BOOLEAN,
     data : BytesUpTo(ChunkBytes, MaxBodyLen)]

\* 'Content-Encoding: '
F_Content_Encoding == <<67, 111, 110, 116, 101, 110, 116, 45, 69, 110, 99, 111, 100, 105, 110, 103, 58, 32>>
\* 'Content-Length: '
F_Content_Length == <<67, 111, 110, 116, 101, 110, 116, 45, 76, 101, 110, 103, 116, 104, 58, 32>>

\* the header block of the message, without its blank line
PayloadHeaders(inp) ==
    (IF inp.enc.present THEN F_Content_Encoding \o inp.enc.text \o CRLF
     ELSE <<>>)
    \o (IF inp.framing = "length"
        THEN F_Content_Length \o <<48 + Len(inp.data)>> \o CRLF
        ELSE IF inp.framing = "chunked" THEN L_TEChunked ELSE <<>>)

\* the body as it is framed on the wire
PayloadBody(inp) ==
    IF inp.framing = "chunked" THEN Flatten(write_body(<<inp.data>>, TRUE))
    ELSE inp.data

\* EofReader.read: stream.read() returns everything up to EOF
EofReader_read(buf, eof) ==
    IF eof THEN [st |-> "ok", data |-> buf, rest |-> <<>>]
    ELSE [st |-> "wait", data |-> <<>>, rest |-> buf]

\* LengthReader.read: readexactly(self.length) once, then b''
LengthReader_read(buf, eof, length) ==
    IF length # 0 THEN ReadExactly(buf, eof, length)
    ELSE [st |-> "ok", data |-> <<>>, rest |-> buf]

\* a reader that keeps its length after the read
LengthReaderKept(r, reader) == [r |-> r, reader |-> reader]

\* self.length = 0 once readexactly returned r
LengthReaderAfter(r, reader) ==
    [r |-> r,
     reader |-> IF r.st = "ok" THEN [reader EXCEPT !.length = 0] ELSE reader]

\* reader.read(self): the chunk, and the reader as the call leaves it
ReaderRead(reader, buf, eof) ==
    IF reader.reader = "Chunked"
    THEN [r |-> ChunkedReader_read(buf, eof), reader |-> reader]
    ELSE IF reader.reader = "Length"
    THEN LengthReaderAfter(LengthReader_read(buf, eof, reader.length), reader)
    ELSE [r |-> EofReader_read(buf, eof), reader |-> reader]

\* the while loop of read_payload: chunks is what was handed to buf.write
\* (through dec.decompress when there is a dec); PayloadTurn is the body of
\* the loop once reader.read returned c
RECURSIVE PayloadLoop(_, _, _, _)
RECURSIVE PayloadTurn(_, _, _)
PayloadTurn(c, eof, read) ==
    IF c.r.st # "ok" THEN [st |-> c.r.st, chunks |-> read, rest |-> c.r.rest]
    ELSE IF c.r.data = <<>>
    THEN [st |-> "ok", chunks |-> read, rest |-> c.r.rest]
    ELSE PayloadLoop(c.reader, c.r.rest, eof, Append(read, c.r.data))

PayloadLoop(reader, buf, eof, read) ==
    PayloadTurn(ReaderRead(reader, buf, eof), eof, read)

\* encoding is not None and encoding not in ('gzip', 'deflate')
EncodingRefused(encoding) ==
    encoding # None /\ encoding \notin {"gzip", "deflate"}

\* buf.getvalue() after the loop ended as l
PayloadResult(l, encoding) ==
    [st |-> l.st, dec |-> encoding, chunks |-> l.chunks, rest |-> l.rest]

\* read_payload(reader, encoding): dec names the decompressobj the chunks
\* went through, None when they were written as read
read_payload(reader, encoding, buf, eof) ==
    IF EncodingRefused(encoding)
    THEN [st |-> "UnsupportedEncoding", dec |-> None, chunks |-> <<>>,
          rest |-> buf]
    ELSE PayloadResult(PayloadLoop(reader, buf, eof, <<>>), encoding)

InitPayload ==
    /\ ypc = "init"
    /\ yinp \in PayloadInputs
    /\ ybuf = <<>>
    /\ yeof = FALSE
    /\ ymsg = None
    /\ yres = None
    /\ ChunkedOff /\ MsgOff /\ WsOff /\ HsOff /\ FrOff /\ SrvOff /\ HdOff
    /\ ParseOff /\ RequestOff /\ ApiOff /\ X9Off

PayloadOthers ==
    <<cvars, mvars, wvars, hvars, fvars, svars, kvars, pvars, qvars, avars,
      x9vars>>

\* data_received: the message reaches the reader (the body alone when
\* read_payload is called directly)
PayloadFeed ==
    /\ ypc = "init"
    /\ ybuf' = (IF yinp.path = "read_message"
                THEN PayloadHeaders(yinp) \o CRLF ELSE <<>>)
               \o PayloadBody(yinp)
    /\ ypc' = "fed"
    /\ UNCHANGED <<yinp, yeof, ymsg, yres, PayloadOthers>>

\* eof_received: feed_eof()
PayloadEof ==
    /\ ypc \in {"fed", "message"}
    /\ ~yeof
    /\ yeof' = TRUE
    /\ UNCHANGED <<ypc, yinp, ybuf, ymsg, yres, PayloadOthers>>

\* msg = yield from read_message(compression=...): the headers are read and
\* msg.payload is read_payload(reader, cmode), not yet run
PayloadReadMessage ==
    /\ ypc = "fed"
    /\ yinp.path = "read_message"
    /\ \E r \in {read_message(ybuf, yeof, <<1, 1>>, NoLength,
                              yinp.compression, TRUE)} :
       /\ r.st = "ok"
       /\ ymsg' = [reader |-> r.payload, encoding |-> r.compression]
       /\ ybuf' = r.rest
    /\ ypc' = "message"
    /\ UNCHANGED <<yinp, yeof, yres, PayloadOthers>>

\* the reader a direct caller builds for the body
DirectReader(inp) ==
    IF inp.framing = "chunked" THEN [reader |-> "Chunked"]
    ELSE IF inp.framing = "length"
    THEN [reader |-> "Length", length |-> Len(inp.data)]
    ELSE [reader |-> "Eof"]

\* read_payload(reader, encoding) is called directly
PayloadCall ==
    /\ ypc = "fed"
    /\ yinp.path = "read_payload"
    /\ ymsg' = [reader |-> DirectReader(yinp), encoding |-> yinp.enc.name]
    /\ ypc' = "message"
    /\ UNCHANGED <<yinp, ybuf, yeof, yres, PayloadOthers>>

\* yield from msg.payload: read_payload runs to its end
ReadPayload ==
    /\ ypc = "message"
    /\ \E r \in {read_payload(ymsg.reader, ymsg.encoding, ybuf, yeof)} :
       /\ r.st # "wait"
       /\ yres' = [st |-> r.st, dec |-> r.dec, chunks |-> r.chunks,
                   consumed |-> Len(ybuf) - Len(r.rest)]
       /\ ybuf' = r.rest
       /\ ypc' = IF r.st = "ok" THEN "done" ELSE "failed"
    /\ UNCHANGED <<yinp, yeof, ymsg, PayloadOthers>>

NextPayload ==
    \/ PayloadFeed
    \/ PayloadEof
    \/ PayloadReadMessage
    \/ PayloadCall
    \/ ReadPayload

SpecPayload == InitPayload /\ [][NextPayload]_vars

\* the message carries a Content-Encoding that is neither gzip nor deflate
UnsupportedCoding(inp) ==
    inp.enc.present /\ Lower(inp.enc.text) \notin {T_gzip, T_deflate}

\* the body was asked for through read_payload directly, or through
\* read_message with compression enabled
BodyObtained ==
    /\ ypc \in {"done", "failed"}
    /\ yinp.path = "read_message" => yinp.compression

\* C29: for every message whose Content-Encoding is neither gzip nor
\* deflate, obtaining the body fails with the unsupported-encoding error
\* before any body byte is consumed, through read_message (compression
\* enabled) and through read_payload called with that encoding.
C29_UnsupportedEncodingRefused ==
    (BodyObtained /\ UnsupportedCoding(yinp)) =>
        /\ yres.st = "UnsupportedEncoding"
        /\ yres.consumed = 0

(***************************************************************************)
(* SpecDelivery: a peer sends one frame; the transport delivers its bytes  *)
(* in pieces (feed_data) and may end the stream (feed_eof);                *)
(* _receive_frame runs whenever the reader can go on.                      *)
(***************************************************************************)
MaxDeliveries == 3
MaxPiece == 4

SplitLens == {0, 1, 3, 126}

SplitInputs ==
    {FrameInput(o, Payload(n, 1), k) :
        o \in {OPCODE_TEXT, OPCODE_BINARY}, n \in SplitLens,
        k \in {<<>>, MaskKey}}
    \cup {FrameInput(OPCODE_PING, Payload(n, 1), <<>>) : n \in {0, 3}}

\* the frame's bytes as the peer writes them
SplitWire(inp) ==
    IF inp.mask = <<>> THEN FrameBytes(inp.message, inp.opcode)
    ELSE MaskedFrameBytes(inp.message, inp.opcode, inp.mask)

InitDelivery ==
    /\ dpc = "hdr"
    /\ dinp \in SplitInputs
    /\ dleft = SplitWire(dinp)
    /\ dbuf = <<>>
    /\ deof = FALSE
    /\ dfeeds = 0
    /\ dloc = FreshLocals
    /\ dout = Pending
    /\ ChunkedOff /\ MsgOff /\ WsOff /\ HsOff /\ FrOff /\ SrvOff /\ HdOff
    /\ ParseOff /\ RequestOff /\ ApiOff /\ PayloadOff /\ X10Off

DeliveryOthers ==
    <<cvars, mvars, wvars, hvars, fvars, svars, kvars, pvars, qvars, avars,
      yvars, x10vars>>

\* the sizes the next piece can have: up to MaxPiece bytes, or all the rest;
\* the last delivery allowed takes the rest
PieceSizes ==
    IF dfeeds + 1 = MaxDeliveries THEN {Len(dleft)}
    ELSE {k \in 1..Len(dleft) : k <= MaxPiece} \cup {Len(dleft)}

\* data_received: _rstream.feed_data(piece)
Deliver ==
    /\ dpc # "off"
    /\ ~deof
    /\ dleft # <<>>
    /\ dfeeds < MaxDeliveries
    /\ \E k \in PieceSizes :
          /\ dbuf' = dbuf \o Take(dleft, k)
          /\ dleft' = Drop(dleft, k)
    /\ dfeeds' = dfeeds + 1
    /\ UNCHANGED <<dpc, dinp, deof, dloc, dout, DeliveryOthers>>

\* eof_received: _rstream.feed_eof()
DeliverEof ==
    /\ dpc # "off"
    /\ ~deof
    /\ deof' = TRUE
    /\ UNCHANGED <<dpc, dinp, dleft, dbuf, dfeeds, dloc, dout, DeliveryOthers>>

\* _receive_frame goes on from where it waits, until it waits again,
\* returns or raises
FrameStep ==
    /\ dpc \in {"hdr", "length", "mask", "payload"}
    /\ \E r \in {_receive_frame(dpc, dloc, dbuf, deof, 0)} :
          /\ r.st # "wait" \/ r.pc # dpc \/ r.rest # dbuf
          /\ dpc' = IF r.st = "wait" THEN r.pc ELSE "done"
          /\ dloc' = r.loc
          /\ dbuf' = r.rest
          /\ dout' = IF r.st = "wait" THEN Pending
                     ELSE IF r.st = "frame"
                     THEN Message(r.loc.payload, r.loc.f_opcode = 2)
                     ELSE IF r.st = "none" THEN Empty
                     ELSE Raised(r.err)
    /\ UNCHANGED <<dinp, dleft, deof, dfeeds, DeliveryOthers>>

NextDelivery == Deliver \/ DeliverEof \/ FrameStep

SpecDelivery == InitDelivery /\ [][NextDelivery]_vars

\* the stream ended before the whole frame was delivered
EofMidFrame == deof /\ dleft # <<>>

\* C31: the frame _receive_frame returns does not depend on how its bytes
\* are split over feed_data calls: unless EOF arrives in the middle of the
\* frame, the reader waits for the missing bytes and then returns the frame
\* it returns when the bytes come in one call (FIN=1, the opcode and the
\* payload the peer sent); it raises only when EOF arrived mid-frame.
C31_SplitIndependence ==
    dpc = "done" =>
        /\ dout.kind = "raised" => EofMidFrame
        /\ ~EofMidFrame =>
              /\ dout.kind = "message"
              /\ dout.data = dinp.message
              /\ dloc.fin = 1 /\ dloc.f_opcode = dinp.opcode

(***************************************************************************)
(* The handler task of a connection.                                       *)
(***************************************************************************)
\* C32: at most one handler task is alive per connection.  While
\* self.handler is set its task is alive; while it is None on a connection
\* that is not lost no task is alive; and a step that creates a task finds
\* the previous one fully finished.
C32_SingleHandler ==
    [][/\ handler = "task" => task.pos # "none"
       /\ (handler = None /\ ~lost) => task.pos = "none"
       /\ (task'.pos = "created" /\ task.pos # "created") =>
             (handler = None /\ task.pos = "none")]_vars

\* a second handler was created after the first one served its request
C32_Witness ==
    /\ request_count = 1
    /\ handler = "task"
    /\ task = [pos |-> "created", cancel |-> FALSE]
    /\ ~closing /\ ~lost

(***************************************************************************)
(* SpecResponse: one server Response.  The application calls             *)
(* start_response(status, headers, exc_info) any number of times and       *)
(* write(arg), the callable start_response returned.                       *)
(***************************************************************************)
MaxCalls == 4
MaxArgLen == 3

\* start_response(status, headers, exc_info): the headers are kept by the
\* Content-Length they give (<<>>: none, self.length stays as it is).
\* [r, raised]
Response_start_response(r, status, length, exc_info) ==
    IF exc_info /\ r.status # None /\ r.headers_sent
    THEN [r |-> r, raised |-> TRUE]
    ELSE IF ~exc_info /\ r.status # None THEN [r |-> r, raised |-> TRUE]
    ELSE [r |-> [r EXCEPT
                   !.status = status,
                   !.length = IF length = <<>> THEN r.length ELSE length,
                   !.chunked =
                       \/ r.chunked
                       \/ /\ length = <<>> /\ r.length = <<>>
                          /\ ~VersionLE(r.version, <<1, 0>>)
                          /\ ~NoBodyStatus(status)],
          raised |-> FALSE]

Statuses == {"200 OK", "204 No Content", "304 Not Modified"}

\* the Content-Length headers an application passes
DeclaredLengths == {<<>>, <<0>>, <<2>>, <<3>>}

RspLog(op, n, raised) == [op |-> op, n |-> n, raised |-> raised]

InitResponse ==
    /\ rsp \in {NewResponse(v, c) : v \in {<<1, 0>>, <<1, 1>>}, c \in BOOLEAN}
    /\ rspout = <<>>
    /\ rspn = 0
    /\ rsplog = RspLog("new", 0, FALSE)
    /\ ChunkedOff /\ MsgOff /\ WsOff /\ HsOff /\ FrOff /\ SrvOff /\ HdOff
    /\ ParseOff /\ RequestOff /\ ApiOff /\ PayloadOff /\ DeliveryOff /\ X11Off

ResponseOthers ==
    <<cvars, mvars, wvars, hvars, fvars, svars, kvars, pvars, qvars, avars,
      yvars, dvars, x11vars>>

\* the application calls start_response(status, headers, exc_info)
RspStart ==
    /\ rspn < MaxCalls
    /\ \E status \in Statuses, length \in DeclaredLengths,
          exc_info \in BOOLEAN :
          \E c \in {Response_start_response(rsp, status, length, exc_info)} :
             /\ rsp' = c.r
             /\ rsplog' = RspLog("start_response", 0, c.raised)
    /\ rspn' = rspn + 1
    /\ UNCHANGED <<rspout, ResponseOthers>>

\* the application (or the server, for an item of the iterable) calls
\* write(arg), which it got from start_response
RspWrite ==
    /\ rsp.status # None
    /\ rspn < MaxCalls
    /\ \E arglen \in 0..MaxArgLen :
          \E ro \in {Response_write([r |-> rsp, out |-> rspout], arglen)} :
             /\ rsp' = ro.r
             /\ rspout' = ro.out
             /\ rsplog' = RspLog("write", arglen, FALSE)
    /\ rspn' = rspn + 1
    /\ UNCHANGED ResponseOthers

NextResponse == RspStart \/ RspWrite

SpecResponse == InitResponse /\ [][NextResponse]_vars

\* the body bytes written so far
RECURSIVE BodyWritten(_)
BodyWritten(out) ==
    IF out = <<>> THEN 0
    ELSE (IF Head(out).kind \in {"data", "chunk"} THEN Head(out).n ELSE 0)
         + BodyWritten(Tail(out))

Min(a, b) == IF a <= b THEN a ELSE b

C34_ChunkedExcludesLength ==
    rsp.chunked =>
        /\ rsp.length = <<>>
        /\ ~VersionLE(rsp.version, <<1, 0>>)
        /\ ~NoBodyStatus(rsp.status)

(***************************************************************************)
(* SpecSession: the session of SpecWS with an application that also       *)
(* calls send().                                                           *)
(***************************************************************************)
MaxSends == 1

SessionOthers ==
    <<cvars, mvars, hvars, fvars, svars, kvars, pvars, qvars, avars, yvars,
      dvars, evars, x12vars>>

\* the turn of receive() took a close frame whole and returned empty
ReturnedOnClose ==
    /\ wret' = Empty
    /\ wlog'.sync
    /\ wlog'.cur # wlog.cur
    /\ Last(wlog'.cur).opcode = OPCODE_CLOSE

\* one turn of receive(), with the ghost
SessionReceiveStep ==
    /\ ReceiveTurn
    /\ gpeer' = (gpeer \/ ReturnedOnClose)
    /\ UNCHANGED <<weof, wchunks, gsent, SessionOthers>>

\* the application calls send(message, binary)
LocalSend ==
    /\ wpc \in {"idle", "hdr", "length", "mask", "payload"}
    /\ gsent < MaxSends
    /\ \E binary \in BOOLEAN :
          wout' = Append(wout,
                         FrameBytes(<<97>>, IF binary THEN OPCODE_BINARY
                                            ELSE OPCODE_TEXT))
    /\ gsent' = gsent + 1
    /\ UNCHANGED <<wpc, wbuf, weof, closed, close_code, close_message,
                   wchunks, wloc, wret, wlog, gpeer, SessionOthers>>

NextSession ==
    \/ PeerSend
    \/ PeerEof
    \/ ReceiveCall
    \/ SessionReceiveStep
    \/ LocalClose
    \/ LocalSend

SpecSession == InitWS /\ [][NextSession]_vars

\* the data frames (text 0x81, binary 0x82) among the writes
DataWrites(out) == {i \in 1..Len(out) : out[i][1] \in {129, 130}}

\* C35: after the session has written a close frame (closed is true) no
\* data frame is written to the transport any more: send() after close
\* writes nothing.
C35_NoDataAfterClose ==
    [][closed => DataWrites(wout') = DataWrites(wout)]_vars

\* the step belongs to receive(): the call starts, goes on or ends
ReceiveMoves == wpc' # wpc \/ wret' # wret \/ wloc' # wloc

\* C36: once a close frame has been received and receive() has returned
\* empty, every later receive() call returns empty as well: it delivers no
\* data message, whatever follows the close frame on the stream, and writes
\* no further frame.
C36_EmptyAfterPeerClose ==
    [][(gpeer /\ ReceiveMoves) =>
          /\ wret'.kind \in {"pending", "empty"}
          /\ wout' = wout]_vars

(***************************************************************************)
(* SpecRedirect: the loop of api.request().  Each turn builds an           *)
(* HttpRequest, waits for start() to read the response and then follows a  *)
(* 301/302 to the url of its Location (or URI) header.                     *)
(***************************************************************************)
MaxLimit == 3
MaxFollow == 4

RedirectArgs == [allow_redirects : BOOLEAN, max_redirects : 0..MaxLimit]

\* the Location header of a response: absent, a path, or a full url
Locations == {"none", "relative", "absolute"}

ResponseStatuses == {200, 301, 302, 404}

InitRedirect ==
    /\ rdpc = "init"
    /\ rdargs \in RedirectArgs
    /\ rdredirects = 0
    /\ rdrequests = 0
    /\ rdresp = NoResponse
    /\ rdout = None
    /\ rdall = TRUE
    /\ ChunkedOff /\ MsgOff /\ WsOff /\ HsOff /\ FrOff /\ SrvOff /\ HdOff
    /\ ParseOff /\ RequestOff /\ ApiOff /\ PayloadOff /\ DeliveryOff
    /\ ResponseOff /\ SessionOff /\ X13Off

RedirectOthers ==
    <<cvars, mvars, wvars, hvars, fvars, svars, kvars, pvars, qvars, avars,
      yvars, dvars, evars, gvars, x13vars>>

\* request(...) is called: the first HttpRequest, create_connection and
\* tasks.wait
RedirectCall ==
    /\ rdpc = "init"
    /\ rdpc' = "waiting"
    /\ rdrequests' = 1
    /\ UNCHANGED <<rdargs, rdredirects, rdresp, rdout, rdall, RedirectOthers>>

\* the task fails, or the timeout expires: request() raises
RedirectFails ==
    /\ rdpc = "waiting"
    /\ rdpc' = "raised"
    /\ \E e \in {"exc", "TimeoutError"} : rdout' = e
    /\ UNCHANGED <<rdargs, rdredirects, rdrequests, rdresp, rdall,
                   RedirectOthers>>

\* r_url = headers.get('location') or headers.get('uri'); r_url[:7]
LocationUsable(rs) == rs.location # "none"

\* the task is done with a response: the redirect test and what follows it
RedirectTurn(rs) ==
    /\ rdresp' = rs
    /\ rdall' = (rdall /\ rs.status \in {301, 302})
    /\ IF rs.status \in {301, 302} /\ rdargs.allow_redirects
       THEN /\ rdredirects' = rdredirects + 1
            /\ IF rdargs.max_redirects # 0
                  /\ rdredirects + 1 >= rdargs.max_redirects
               THEN /\ rdpc' = "returned"
                    /\ rdout' = "response"
                    /\ UNCHANGED rdrequests
               ELSE IF ~LocationUsable(rs)
               THEN /\ rdpc' = "raised"
                    /\ rdout' = "TypeError"
                    /\ UNCHANGED rdrequests
               ELSE /\ rdrequests < MaxFollow
                    /\ rdrequests' = rdrequests + 1
                    /\ UNCHANGED <<rdpc, rdout>>
       ELSE /\ rdpc' = "returned"
            /\ rdout' = "response"
            /\ UNCHANGED <<rdredirects, rdrequests>>

RedirectResponse ==
    /\ rdpc = "waiting"
    /\ \E st \in ResponseStatuses, l \in Locations :
          RedirectTurn([status |-> st, location |-> l])
    /\ UNCHANGED <<rdargs, RedirectOthers>>

NextRedirect ==
    \/ RedirectCall
    \/ RedirectFails
    \/ RedirectResponse

SpecRedirect == InitRedirect /\ [][NextRedirect]_vars

\* request() is over, every response was read and was a 301 or a 302
OnlyRedirects ==
    /\ rdpc \in {"returned", "raised"}
    /\ rdout \notin {"exc", "TimeoutError"}
    /\ rdall

\* C39: with allow_redirects set and max_redirects = m >= 1, when every
\* response is a 301 or a 302, request() makes exactly m requests and
\* returns the last redirect response; a response with another status ends
\* the loop at once.
C39_RedirectBound ==
    /\ (OnlyRedirects /\ rdargs.allow_redirects /\ rdargs.max_redirects >= 1)
          => /\ rdpc = "returned"
             /\ rdrequests = rdargs.max_redirects
             /\ rdresp.status \in {301, 302}
    /\ (rdpc = "waiting" /\ rdrequests > 1) => rdresp.status \in {301, 302}
    /\ (rdresp.status \in {200, 404}) => rdpc = "returned"

(***************************************************************************)
(* SpecWriter: the generator ChunkedWriter(chunk_size).write(stream),     *)
(* resumed with next() until it returns.  HttpRequest.start passes         *)
(* chunk_size = chunked when chunked is a true int, and 8196 otherwise.    *)
(***************************************************************************)
MaxItems == 2
MaxItemLen == 2
MaxPieces == 6

\* the chunk sizes tried: every int that is true can arrive
ChunkSizes == {-2, -1, 1, 2, 3}

WriterInputs ==
    UNION {[1..n -> BytesUpTo({97, 98}, MaxItemLen)] : n \in 0..MaxItems}

\* data[:k] and data[k:] of Python, k of either sign
SliceTo(data, k) ==
    IF k >= 0 THEN SubSeq(data, 1, IF k < Len(data) THEN k ELSE Len(data))
    ELSE SubSeq(data, 1, IF Len(data) + k > 0 THEN Len(data) + k ELSE 0)

SliceFrom(data, k) ==
    IF k >= 0
    THEN SubSeq(data, (IF k < Len(data) THEN k ELSE Len(data)) + 1, Len(data))
    ELSE SubSeq(data, (IF Len(data) + k > 0 THEN Len(data) + k ELSE 0) + 1,
                Len(data))

\* from the top of 'while True' to the next yield: the inner loop fills buf
\* from the iterator while buf.tell() < chunk_size
RECURSIVE ChunkedWriter_next(_, _, _)
ChunkedWriter_next(buf, rest, k) ==
    IF Len(buf) < k
    THEN IF rest = <<>>
         THEN [piece |-> buf, buf |-> buf, rest |-> rest, last |-> TRUE]
         ELSE ChunkedWriter_next(buf \o Head(rest), Tail(rest), k)
    ELSE [piece |-> SliceTo(buf, k), buf |-> SliceFrom(buf, k),
          rest |-> rest, last |-> FALSE]

InitWriter ==
    /\ cwpc = "running"
    /\ cwk \in ChunkSizes
    /\ cwin \in WriterInputs
    /\ cwrest = cwin
    /\ cwbuf = <<>>
    /\ cwout = <<>>
    /\ ChunkedOff /\ MsgOff /\ WsOff /\ HsOff /\ FrOff /\ SrvOff /\ HdOff
    /\ ParseOff /\ RequestOff /\ ApiOff /\ PayloadOff /\ DeliveryOff
    /\ ResponseOff /\ SessionOff /\ RedirectOff /\ ConsumeOff /\ X15Off

WriterOthers ==
    <<cvars, mvars, wvars, hvars, fvars, svars, kvars, pvars, qvars, avars,
      yvars, dvars, evars, gvars, rdvars, bvars, x15vars>>

\* next() on the generator: it runs to its next yield
WriterNext ==
    /\ cwpc = "running"
    /\ Len(cwout) < MaxPieces
    /\ \E r \in {ChunkedWriter_next(cwbuf, cwrest, cwk)} :
          /\ cwout' = Append(cwout, r.piece)
          /\ cwbuf' = r.buf
          /\ cwrest' = r.rest
          /\ cwpc' = IF r.last THEN "returned" ELSE "running"
    /\ UNCHANGED <<cwk, cwin, WriterOthers>>

NextWriter == WriterNext

SpecWriter == InitWriter /\ [][NextWriter]_vars

\* C38: ChunkedWriter(k).write ends for every finite input and every chunk
\* size k the request path can pass (it never yields more pieces than the
\* input has bytes, plus the last one); the pieces concatenated are the
\* input concatenated; every piece but the last has exactly k bytes and the
\* last has fewer than k.
C38_WriterPieces ==
    /\ Len(cwout) <= Len(Flatten(cwin)) + 1
    /\ \A i \in 1..Len(cwout) :
          IF cwpc = "returned" /\ i = Len(cwout)
          THEN Len(cwout[i]) < cwk
          ELSE Len(cwout[i]) = cwk
    /\ cwpc = "returned" => Flatten(cwout) = Flatten(cwin)

(***************************************************************************)
(* SpecBegin: HttpResponse.begin(stream) once the status line and the     *)
(* headers are read.  A header is <<>> when headers.get(name) is None and  *)
(* <<value>> otherwise.                                                    *)
(***************************************************************************)
BeginMethods == {"GET", "HEAD"}
BeginStatuses == {100, 200, 204, 304}
BeginVersions == {<<1, 0>>, <<1, 1>>}

\* Transfer-Encoding: absent, 'chunked', 'Chunked', 'identity'
BeginTE ==
    {<<>>, <<T_chunked>>, << <<67, 104, 117, 110, 107, 101, 100>> >>,
     << <<105, 100, 101, 110, 116, 105, 116, 121>> >>}

\* Content-Length: absent, '4', '0', '-1', 'ert'
BeginCL ==
    {<<>>, << <<52>> >>, << <<48>> >>, << <<45, 49>> >>,
     << <<101, 114, 116>> >>}

\* Connection: absent, 'close', 'keep-alive'
BeginConn == {<<>>, <<T_close>>, <<T_keep_alive>>}

BeginInputs ==
    [method : BeginMethods, status : BeginStatuses, version : BeginVersions,
     te : BeginTE, cl : BeginCL, conn : BeginConn]

\* tr_enc and tr_enc.lower() == "chunked"
BeginChunked(inp) == inp.te # <<>> /\ Lower(inp.te[1]) = T_chunked

\* the test for a body of fixed length zero
BeginNoBody(inp) ==
    \/ inp.status = 204
    \/ inp.status = 304
    \/ (100 <= inp.status /\ inp.status < 200)
    \/ inp.method = "HEAD"

\* length: [st, some, val]; st is "ok" or the error int(...) ends with
BeginLength(inp) ==
    IF BeginNoBody(inp) THEN [st |-> "ok", some |-> TRUE, val |-> 0]
    ELSE IF BeginChunked(inp) THEN [st |-> "ok", some |-> FALSE, val |-> 0]
    ELSE IF inp.cl = <<>> THEN [st |-> "TypeError", some |-> FALSE, val |-> 0]
    ELSE LET n == IntBase10(inp.cl[1]) IN
         IF ~n.ok THEN [st |-> "ValueError", some |-> FALSE, val |-> 0]
         ELSE IF n.val < 0 THEN [st |-> "ok", some |-> FALSE, val |-> 0]
         ELSE [st |-> "ok", some |-> TRUE, val |-> n.val]

\* _should_close with self.version = 10 below (1, 1) and 11 otherwise
BeginShouldClose(inp) ==
    IF ~(inp.version[1] < 1 \/ (inp.version[1] = 1 /\ inp.version[2] < 1))
    THEN inp.conn # <<>> /\ Contains(Lower(inp.conn[1]), T_close)
    ELSE TRUE

\* the body begin() sets up
BeginBody(inp, length) ==
    IF BeginChunked(inp) THEN [reader |-> "Chunked", length |-> 0]
    ELSE IF length.some THEN [reader |-> "Length", length |-> length.val]
    ELSE [reader |-> "Eof", length |-> 0]

HttpResponse_begin(inp) ==
    LET length == BeginLength(inp) IN
    IF length.st # "ok"
    THEN [st |-> length.st, will_close |-> FALSE,
          body |-> [reader |-> "none", length |-> 0]]
    ELSE [st |-> "ok",
          will_close |-> (BeginShouldClose(inp)
                          \/ (~BeginChunked(inp) /\ ~length.some)),
          body |-> BeginBody(inp, length)]

InitBegin ==
    /\ hrpc = "init"
    /\ hrinp \in BeginInputs
    /\ hrout = None
    /\ ChunkedOff /\ MsgOff /\ WsOff /\ HsOff /\ FrOff /\ SrvOff /\ HdOff
    /\ ParseOff /\ RequestOff /\ ApiOff /\ PayloadOff /\ DeliveryOff
    /\ ResponseOff /\ SessionOff /\ RedirectOff /\ ConsumeOff /\ WriterOff

BeginOthers ==
    <<cvars, mvars, wvars, hvars, fvars, svars, kvars, pvars, qvars, avars,
      yvars, dvars, evars, gvars, rdvars, bvars, cwvars>>

\* yield from response.begin(stream)
Begin ==
    /\ hrpc = "init"
    /\ \E r \in {HttpResponse_begin(hrinp)} :
          /\ hrout' = r
          /\ hrpc' = IF r.st = "ok" THEN "begun" ELSE "raised"
    /\ UNCHANGED <<hrinp, BeginOthers>>

NextBegin == Begin

SpecBegin == InitBegin /\ [][NextBegin]_vars

\* the response declares no length the reader can use: no Content-Length
\* header, or a negative one
NoUsableLength(inp) ==
    inp.cl = <<>> \/ (IntBase10(inp.cl[1]).ok /\ IntBase10(inp.cl[1]).val < 0)

\* C40: for a response to a HEAD request, or with status 1xx, 204 or 304,
\* begin sets up a body of length zero whatever Content-Length or
\* Transfer-Encoding the response declares; and a response that is not
\* chunked and has no usable length is marked will_close.
C40_ZeroLengthBody ==
    hrpc # "init" =>
        /\ BeginNoBody(hrinp) =>
              /\ hrpc = "begun"
              /\ hrout.body = [reader |-> "Length", length |-> 0]
        /\ (~BeginNoBody(hrinp) /\ ~BeginChunked(hrinp)
               /\ NoUsableLength(hrinp)) =>
              /\ hrpc = "begun"
              /\ hrout.will_close

(***************************************************************************)
(* SpecConsume: a body reader on a stream that holds the body and the     *)
(* first bytes of what follows it.  The transport delivers the bytes in    *)
(* pieces; LengthReader.read is called several times, read_payload with a  *)
(* ChunkedReader once.                                                     *)
(***************************************************************************)
MaxLength == 2
MaxReads == 3

\* what follows the body on the stream: nothing, 'GE', or a blank line
\* and 'G'
Tails == {<<>>, <<71, 69>>, <<13, 10, 71>>}

\* the last-chunk line: '0\r\n' or '0;x\r\n'
LastChunks == {<<48, 13, 10>>, <<48, 59, 120, 13, 10>>}

\* the trailer fields: none or 'A: b\r\n'
Trailers == {<<>>, <<65, 58, 32, 98, 13, 10>>}

\* the line that ends the trailer section; none when EOF ends it
TrailerEnds == {CRLF, <<LF>>, <<>>}

\* the chunked bodies whose trailer section ends with the line e
ChunkedBodies(e) ==
    {Flatten(write_chunked(d)) \o l \o t \o e :
        d \in BytesUpTo(ChunkBytes, MaxChunkLen), l \in LastChunks,
        t \in Trailers}

ConsumeInputs ==
    {[reader |-> [reader |-> "Length", length |-> Len(d)], body |-> d,
      blank |-> FALSE, tail |-> t] :
         d \in BytesUpTo(ChunkBytes, MaxLength), t \in Tails}
    \cup UNION {{[reader |-> [reader |-> "Chunked"], body |-> b,
                   blank |-> e # <<>>, tail |-> t] :
                     b \in ChunkedBodies(e),
                     t \in IF e = <<>> THEN {<<>>} ELSE Tails} :
                 e \in TrailerEnds}

InitConsume ==
    /\ bpc = "reading"
    /\ binp \in ConsumeInputs
    /\ bleft = binp.body \o binp.tail
    /\ bbuf = <<>>
    /\ beof = FALSE
    /\ breader = binp.reader
    /\ bn = 0
    /\ ChunkedOff /\ MsgOff /\ WsOff /\ HsOff /\ FrOff /\ SrvOff /\ HdOff
    /\ ParseOff /\ RequestOff /\ ApiOff /\ PayloadOff /\ DeliveryOff
    /\ ResponseOff /\ SessionOff /\ RedirectOff /\ X14Off

ConsumeOthers ==
    <<cvars, mvars, wvars, hvars, fvars, svars, kvars, pvars, qvars, avars,
      yvars, dvars, evars, gvars, rdvars, x14vars>>

\* data_received: feed_data with the next bytes
ConsumeFeed ==
    /\ ~beof
    /\ \E k \in 1..Len(bleft) :
          /\ bbuf' = bbuf \o Take(bleft, k)
          /\ bleft' = Drop(bleft, k)
    /\ UNCHANGED <<bpc, binp, beof, breader, bn, ConsumeOthers>>

\* eof_received: feed_eof(); nothing is delivered after it
ConsumeEof ==
    /\ ~beof
    /\ beof' = TRUE
    /\ UNCHANGED <<bpc, binp, bleft, bbuf, breader, bn, ConsumeOthers>>

\* data = yield from reader.read(stream) with reader = LengthReader(n)
LengthRead ==
    /\ bpc = "reading"
    /\ breader.reader = "Length"
    /\ bn < MaxReads
    /\ \E c \in {ReaderRead(breader, bbuf, beof)} :
          /\ c.r.st # "wait"
          /\ bbuf' = c.r.rest
          /\ breader' = c.reader
          /\ bpc' = IF c.r.st = "ok" THEN "reading" ELSE "failed"
    /\ bn' = bn + 1
    /\ UNCHANGED <<binp, bleft, beof, ConsumeOthers>>

\* yield from stream.read_payload(ChunkedReader())
ChunkedPayload ==
    /\ bpc = "reading"
    /\ breader.reader = "Chunked"
    /\ \E r \in {read_payload(breader, None, bbuf, beof)} :
          /\ r.st # "wait"
          /\ bbuf' = r.rest
          /\ bpc' = IF r.st = "ok" THEN "done" ELSE "failed"
    /\ bn' = bn + 1
    /\ UNCHANGED <<binp, bleft, beof, breader, ConsumeOthers>>

NextConsume ==
    \/ ConsumeFeed
    \/ ConsumeEof
    \/ LengthRead
    \/ ChunkedPayload

SpecConsume == InitConsume /\ [][NextConsume]_vars

\* the bytes of the stream that no read has taken
Unread == bbuf \o bleft

\* C37: a body reader consumes its message body and no byte after it.
\* LengthReader(n) takes exactly n bytes with its first read and none with
\* later reads (none at all for n = 0); read_payload with a ChunkedReader
\* takes the bytes through the line that ends the trailer section (the
\* blank line, or EOF) and nothing beyond: what follows stays in the stream.
C37_ExactConsumption ==
    /\ (breader.reader = "Length" /\ bn >= 1 /\ bpc = "reading") =>
          /\ Unread = binp.tail
          /\ breader.length = 0
    /\ (breader.reader = "Chunked" /\ bpc = "done") =>
          IF binp.blank /\ Len(bleft) <= Len(binp.tail)
          THEN Unread = binp.tail
          ELSE beof /\ bbuf = <<>>

C37_Witness ==
    \/ /\ breader.reader = "Length" /\ bn = 2 /\ bpc = "reading"
       /\ Len(binp.body) = 2 /\ binp.tail = <<71, 69>> /\ bbuf = binp.tail
    \/ /\ breader.reader = "Chunked" /\ bpc = "done"
       /\ binp.tail = <<13, 10, 71>> /\ bbuf = binp.tail
       /\ Len(binp.body) > 12

(***************************************************************************)
(* The fragment accumulator of the session: self._chunks, which the frame  *)
(* reader consults, and result, the bytearray _receive collects the        *)
(* payloads of a message in.                                               *)
(***************************************************************************)
\* C30: the fragment accumulator is empty whenever no fragmented message is
\* in progress.  self._chunks is empty; result is empty when receive() is
\* called and after it returned a message, ended cleanly or raised; inside
\* a call it holds the data payloads of the frames this call took and no
\* others, and so does the message the call returns: no byte of an earlier
\* message, completed or aborted, is put in front of a later one.
C30_AccumulatorClean ==
    /\ wchunks = <<>>
    /\ wpc = "idle" => wloc.result = <<>>
    /\ (wlog.sync /\ wpc # "idle") => wloc.result = DataOf(wlog.cur)
    /\ (wlog.sync /\ wret.kind = "message") => wret.data = DataOf(wlog.cur)

\* the peer sent three frames; earlier calls of receive() took the first
\* two, and the last call returned the third, a text message, alone
C30_Witness ==
    /\ wlog.sync
    /\ wlog.nsent = 3 /\ wlog.queue = <<>>
    /\ wlog.cur = <<F_Text1>>
    /\ wret = Message(F_Text1.payload, FALSE)
    /\ wpc = "idle" /\ wloc.result = <<>>

====
